---- MODULE Spec2Model ----
(***************************************************************************)
(* Clinic management backend: the users / patients / doctors /             *)
(* medical_records / payments tables with their database constraints, the  *)
(* handlers that read and write them, and the hand-rolled session token    *)
(* codec of handlers/auth.ts.                                              *)
(*                                                                         *)
(* Strings that the code splits, joins or hashes (tokens) are sequences of *)
(* characters; a character is a natural number and DOT is the '.'          *)
(* character.  sha256 is modelled as a collision-free function.            *)
(***************************************************************************)
EXTENDS Integers, Sequences, FiniteSets, TLC

VARIABLES
  users,          \* rows of usersTable
  nextUserId,     \* users_id_seq (serial primary key)
  doctors,        \* rows of doctorsTable
  nextDoctorId,   \* doctors_id_seq
  patients,       \* rows of patientsTable
  nextPatientId,  \* patients_id_seq
  records,        \* rows of medicalRecordsTable
  nextRecordId,   \* medical_records_id_seq
  payments,       \* rows of paymentsTable
  nextPaymentId,  \* payments_id_seq
  now,            \* Date.now(), in milliseconds
  tokens,         \* the tokens loginUser has returned so far
  reqs,           \* requests in flight, one per connection, with their position
  last            \* the handler call that ended last: its input and its result

vars == <<users, nextUserId, doctors, nextDoctorId, patients, nextPatientId,
          records, nextRecordId, payments, nextPaymentId, now, tokens, reqs, last>>

tables == <<users, doctors, patients, records, payments>>

(***************************************************************************)
(* Bounds of the model and input domains.                                  *)
(***************************************************************************)
MaxUsers == 2        \* rows ever inserted into users
MaxTokens == 1       \* tokens ever issued
MaxHalfDays == 2     \* the clock advances by at most this many half days
MaxSubTicks == 1     \* ... and by at most this many half seconds in between
MaxDoctors == 2      \* rows ever inserted into doctors
MaxPatients == 2     \* rows ever inserted into patients
MaxPayments == 2     \* rows ever inserted into payments
MaxConns == 2        \* requests in flight at a time
MaxRecords == 2      \* rows ever inserted into medical_records
MaxTicks == 1
MaxWeeks == 1        \* the clock advances by at most this many milliseconds

Usernames == <<"alice", "bob">>
Roles == <<"admin", "doctor", "receptionist">>
Passwords == {"pw1", "pw2"}
Salts == {"s1"}

UsernameSet == {Usernames[i] : i \in 1..Len(Usernames)}
RoleSet == {Roles[i] : i \in 1..Len(Roles)}

IndexOf(seq, x) == CHOOSE i \in 1..Len(seq) : seq[i] = x

NULL == [null |-> TRUE]

(***************************************************************************)
(* Handler results: a returned value or a thrown Error(message).           *)
(***************************************************************************)
Return(v) == [ok |-> TRUE, err |-> "", out |-> v]
Throw(m) == [ok |-> FALSE, err |-> m, out |-> NULL]

(***************************************************************************)
(* String primitives.                                                      *)
(***************************************************************************)
DOT == 0

RECURSIVE SplitFrom(_, _, _)
SplitFrom(s, i, cur) ==
  IF i > Len(s) THEN <<cur>>
  ELSE IF s[i] = DOT THEN <<cur>> \o SplitFrom(s, i + 1, <<>>)
  ELSE SplitFrom(s, i + 1, Append(cur, s[i]))

\* token.split('.')
split(s) == SplitFrom(s, 1, <<>>)

\* `${a}.${b}.${c}`
Dotted(a, b, c) == a \o <<DOT>> \o b \o <<DOT>> \o c

\* createHash('sha256').update(s).digest('base64url'): collision-free, and the
\* base64url alphabet has no '.'
sha256(s) == [i \in 1..Len(s) |-> s[i] + 1]

JWT_SECRET == <<7, 7>>
TOKEN_EXPIRY_HOURS == 24

\* Buffer.from(JSON.stringify({ alg: 'HS256', typ: 'JWT' })).toString('base64url')
EncodedHeader == <<5>>

\* Buffer.from(JSON.stringify(fullPayload)).toString('base64url')
EncodePayload(p) ==
  <<p.id, IndexOf(Usernames, p.username), IndexOf(Roles, p.role), p.exp>>

\* JSON.parse(Buffer.from(encodedPayload, 'base64url').toString()); NULL when
\* JSON.parse throws
DecodePayload(seg) ==
  IF /\ Len(seg) = 4
     /\ seg[2] \in 1..Len(Usernames)
     /\ seg[3] \in 1..Len(Roles)
  THEN [id |-> seg[1], username |-> Usernames[seg[2]], role |-> Roles[seg[3]],
        exp |-> seg[4]]
  ELSE NULL

createSimpleJWT(payload, nowMs) ==
  LET exp == (nowMs \div 1000) + (TOKEN_EXPIRY_HOURS * 3600)
      fullPayload == [id |-> payload.id, username |-> payload.username,
                      role |-> payload.role, exp |-> exp]
      encodedHeader == EncodedHeader
      encodedPayload == EncodePayload(fullPayload)
      signature == sha256(Dotted(encodedHeader, encodedPayload, JWT_SECRET))
  IN Dotted(encodedHeader, encodedPayload, signature)

\* the i-th element of a destructured array; undefined and '' are both falsy
\* and are both <<>> here
Nth(parts, i) == IF i <= Len(parts) THEN parts[i] ELSE <<>>

\* verifySimpleJWT without the comparison of the signature
verifySimpleJWT_unsigned(token, nowMs) ==
  LET parts == split(token)
      encodedHeader == Nth(parts, 1)
      encodedPayload == Nth(parts, 2)
      signature == Nth(parts, 3)
      payload == DecodePayload(encodedPayload)
  IN IF encodedHeader = <<>> \/ encodedPayload = <<>> \/ signature = <<>> THEN NULL
     ELSE IF payload = NULL THEN NULL
     ELSE IF payload.exp # 0 /\ nowMs > payload.exp * 1000 THEN NULL
     ELSE payload

\* verifySimpleJWT with the expiry compared by >= in place of >
verifySimpleJWT_expiredAtExp(token, nowMs) ==
  LET parts == split(token)
      encodedHeader == Nth(parts, 1)
      encodedPayload == Nth(parts, 2)
      signature == Nth(parts, 3)
      expectedSignature == sha256(Dotted(encodedHeader, encodedPayload, JWT_SECRET))
      payload == DecodePayload(encodedPayload)
  IN IF encodedHeader = <<>> \/ encodedPayload = <<>> \/ signature = <<>> THEN NULL
     ELSE IF signature # expectedSignature THEN NULL
     ELSE IF payload = NULL THEN NULL
     ELSE IF payload.exp # 0 /\ nowMs >= payload.exp * 1000 THEN NULL
     ELSE payload

verifySimpleJWT(token, nowMs) ==
  LET parts == split(token)
      encodedHeader == Nth(parts, 1)
      encodedPayload == Nth(parts, 2)
      signature == Nth(parts, 3)
      expectedSignature == sha256(Dotted(encodedHeader, encodedPayload, JWT_SECRET))
      payload == DecodePayload(encodedPayload)
  IN IF encodedHeader = <<>> \/ encodedPayload = <<>> \/ signature = <<>> THEN NULL
     ELSE IF signature # expectedSignature THEN NULL
     ELSE IF payload = NULL THEN NULL
     \* payload.exp && Date.now() / 1000 > payload.exp
     ELSE IF payload.exp # 0 /\ nowMs > payload.exp * 1000 THEN NULL
     ELSE payload

(***************************************************************************)
(* Password digests.  A stored digest is a text; what the code does with   *)
(* it is split it on ':' and compare it with a recomputed text, so a       *)
(* digest is the record of its format, of what was hashed and of the salt  *)
(* written after the ':' (fmt "sha256:salt"), or of the encoded hash of    *)
(* Bun.password.hash, which holds no ':' (fmt "argon2id").                 *)
(***************************************************************************)
hashPassword(password, salt) ==
  [hash |-> [fmt |-> "sha256:salt", hashed |-> <<password, salt>>, salt |-> salt],
   salt |-> salt]

\* rnd is the salt randomBytes(16) draws when hashedPassword.split(':') yields
\* no second element.  The code compares newHash, the hash field of
\* hashPassword's result, with the stored text.
verifyPassword(password, hashedPassword, rnd) ==
  LET salt == IF hashedPassword.fmt = "sha256:salt" THEN hashedPassword.salt ELSE rnd
      newHash == hashPassword(password, salt).hash
  IN newHash = hashedPassword

createPasswordHash(password, rnd) == hashPassword(password, rnd).hash

\* Bun.password.hash(password): a salted argon2id encoding, "$argon2id$...$salt$hash"
BunPasswordHash(password, rnd) ==
  [fmt |-> "argon2id", hashed |-> <<password, rnd>>, salt |-> rnd]

(***************************************************************************)
(* The database: constraints of db/schema.ts, checked by every statement.  *)
(* A statement is atomic; it returns the new table or the database error.  *)
(***************************************************************************)
UniqueViolation == "duplicate key value violates unique constraint"
ForeignKeyViolation == "violates foreign key constraint"

\* usersTable.username: text('username').notNull().unique()
UsersUsernameUnique(tbl, row) ==
  \A u \in tbl : u.id # row.id => u.username # row.username

\* doctorsTable.user_id and paymentsTable.cashier_id: references(() => usersTable.id),
\* ON DELETE NO ACTION
UserIsReferenced(id, doctorRows, paymentRows) ==
  \/ \E d \in doctorRows : d.user_id = id
  \/ \E p \in paymentRows : p.cashier_id = id

\* db.insert(usersTable).values(row).returning()
InsertUser(tbl, row) ==
  IF UsersUsernameUnique(tbl, row)
  THEN [res |-> Return(row), tbl |-> tbl \cup {row}]
  ELSE [res |-> Throw(UniqueViolation), tbl |-> tbl]

\* .set(updateData): the columns named in updateData take its values
SetColumns(row, updateData) ==
  [f \in DOMAIN row |-> IF f \in DOMAIN updateData THEN updateData[f] ELSE row[f]]

\* db.update(usersTable).set(updateData).where(eq(usersTable.id, id)).returning()
UpdateUserRows(tbl, id, updateData) ==
  LET hit == {u \in tbl : u.id = id}
      new == {SetColumns(u, updateData) : u \in hit}
  IN IF \A r \in new : UsersUsernameUnique(tbl, r)
     THEN [res |-> Return(new), tbl |-> (tbl \ hit) \cup new]
     ELSE [res |-> Throw(UniqueViolation), tbl |-> tbl]

\* db.delete(usersTable).where(eq(usersTable.id, id)).returning()
DeleteUserRows(tbl, id, doctorRows, paymentRows) ==
  LET hit == {u \in tbl : u.id = id}
  IN IF hit # {} /\ UserIsReferenced(id, doctorRows, paymentRows)
     THEN [res |-> Throw(ForeignKeyViolation), tbl |-> tbl]
     ELSE [res |-> Return(hit), tbl |-> tbl \ hit]

(***************************************************************************)
(* handlers/users.ts                                                       *)
(***************************************************************************)
\* an object literal field that is there only when the input field is
Opt(present, fields) == IF present THEN fields ELSE <<>>

Has(input, f) == f \in DOMAIN input

\* the orders in which a select without ORDER BY can deliver the rows
Orderings(rows) ==
  {o \in [1..Cardinality(rows) -> rows] : \A i, j \in DOMAIN o : o[i] = o[j] => i = j}

\* order: the order in which the table delivers its rows; the array returned
\* is the field rows of the result
getUsers(order) == Return([rows |-> order])

\* created_at and updated_at are the columns' defaultNow()
createUser(input, rnd, tbl, id, nowMs) ==
  LET password_hash == BunPasswordHash(input.password, rnd)
  IN InsertUser(tbl, [id |-> id, username |-> input.username,
                      password_hash |-> password_hash, full_name |-> input.full_name,
                      role |-> input.role, is_active |-> input.is_active,
                      created_at |-> nowMs, updated_at |-> nowMs])

getUserById(id, tbl) ==
  LET found == {u \in tbl : u.id = id}
  IN IF found = {} THEN NULL ELSE CHOOSE u \in found : TRUE

updateUser(input, rnd, tbl, nowMs) ==
  LET updateData ==
        Opt(Has(input, "username"), [username |-> input.username])
        @@ Opt(Has(input, "password"),
               [password_hash |-> BunPasswordHash(input.password, rnd)])
        @@ Opt(Has(input, "full_name"), [full_name |-> input.full_name])
        @@ Opt(Has(input, "role"), [role |-> input.role])
        @@ Opt(Has(input, "is_active"), [is_active |-> input.is_active])
        @@ [updated_at |-> nowMs]
      result == UpdateUserRows(tbl, input.id, updateData)
  IN IF ~result.res.ok THEN result
     ELSE IF result.res.out = {} THEN [res |-> Throw("User not found"), tbl |-> result.tbl]
     ELSE [res |-> Return(CHOOSE r \in result.res.out : TRUE), tbl |-> result.tbl]

deleteUser(id, tbl, doctorRows, paymentRows) ==
  LET result == DeleteUserRows(tbl, id, doctorRows, paymentRows)
  IN IF ~result.res.ok THEN result
     ELSE IF result.res.out = {} THEN [res |-> Throw("User not found"), tbl |-> result.tbl]
     ELSE [res |-> Return([success |-> TRUE]), tbl |-> result.tbl]

(***************************************************************************)
(* handlers/auth.ts                                                        *)
(***************************************************************************)
\* loginUser without the is_active check
loginUser_inactiveToo(input, rnd, tbl, nowMs) ==
  LET found == {u \in tbl : u.username = input.username}
  IN IF found = {} THEN Throw("Invalid username or password")
     ELSE LET user == CHOOSE u \in found : TRUE
          IN IF ~verifyPassword(input.password, user.password_hash, rnd)
               THEN Throw("Invalid username or password")
             ELSE Return([user |-> user,
                          token |-> createSimpleJWT([id |-> user.id,
                                                     username |-> user.username,
                                                     role |-> user.role], nowMs)])

loginUser(input, rnd, tbl, nowMs) ==
  LET found == {u \in tbl : u.username = input.username}
  IN IF found = {} THEN Throw("Invalid username or password")
     ELSE LET user == CHOOSE u \in found : TRUE
          IN IF ~user.is_active THEN Throw("Account is inactive")
             ELSE IF ~verifyPassword(input.password, user.password_hash, rnd)
               THEN Throw("Invalid username or password")
             ELSE Return([user |-> user,
                          token |-> createSimpleJWT([id |-> user.id,
                                                     username |-> user.username,
                                                     role |-> user.role], nowMs)])

\* validateToken without the is_active re-check
validateToken_anyAccount(token, tbl, nowMs) ==
  LET payload == verifySimpleJWT(token, nowMs)
  IN IF payload = NULL THEN Throw("Invalid or expired token")
     ELSE LET found == {u \in tbl : u.id = payload.id}
          IN IF found = {} THEN Throw("User not found or inactive")
             ELSE LET user == CHOOSE u \in found : TRUE
                  IN Return([id |-> user.id, username |-> user.username,
                             role |-> user.role])

\* validateToken returning the username and role of the token's payload
validateToken_fromPayload(token, tbl, nowMs) ==
  LET payload == verifySimpleJWT(token, nowMs)
  IN IF payload = NULL THEN Throw("Invalid or expired token")
     ELSE LET found == {u \in tbl : u.id = payload.id}
          IN IF found = {} \/ \E u \in found : ~u.is_active
               THEN Throw("User not found or inactive")
             ELSE Return([id |-> payload.id, username |-> payload.username,
                          role |-> payload.role])

validateToken(token, tbl, nowMs) ==
  LET payload == verifySimpleJWT(token, nowMs)
  IN IF payload = NULL THEN Throw("Invalid or expired token")
     ELSE LET found == {u \in tbl : u.id = payload.id}
          IN IF found = {} \/ \E u \in found : ~u.is_active
               THEN Throw("User not found or inactive")
             ELSE LET user == CHOOSE u \in found : TRUE
                  IN Return([id |-> user.id, username |-> user.username,
                             role |-> user.role])

(***************************************************************************)
(* Statements on the other tables.  SQL NULL in an integer column is 0     *)
(* (serial ids start at 1) and in a text column the value SqlNull, which   *)
(* no caller's string equals; JavaScript null is written the same way.     *)
(***************************************************************************)
SqlNull == "<null>"

\* patientsTable.medical_record_number: text(...).notNull().unique()
PatientsNumberUnique(tbl, row) ==
  \A p \in tbl : p.id # row.id => p.medical_record_number # row.medical_record_number

\* paymentsTable.receipt_number without .unique()
PaymentsReceiptUnique_absent(tbl, row) == TRUE

\* paymentsTable.receipt_number: text(...).notNull().unique()
PaymentsReceiptUnique(tbl, row) ==
  \A p \in tbl : p.id # row.id => p.receipt_number # row.receipt_number

\* db.insert(patientsTable).values(row).returning()
InsertPatient(tbl, row) ==
  IF PatientsNumberUnique(tbl, row)
  THEN [res |-> Return(row), tbl |-> tbl \cup {row}]
  ELSE [res |-> Throw(UniqueViolation), tbl |-> tbl]

\* the statement without its where clause
UpdatePatientRows_everyRow(tbl, id, updateValues) ==
  LET new == {SetColumns(r, updateValues) : r \in tbl}
  IN IF \A r \in new : PatientsNumberUnique(tbl, r)
     THEN [res |-> Return(new), tbl |-> new]
     ELSE [res |-> Throw(UniqueViolation), tbl |-> tbl]

\* db.update(patientsTable).set(updateValues).where(eq(patientsTable.id, id)).returning()
UpdatePatientRows(tbl, id, updateValues) ==
  LET hit == {r \in tbl : r.id = id}
      new == {SetColumns(r, updateValues) : r \in hit}
  IN IF \A r \in new : PatientsNumberUnique(tbl, r)
     THEN [res |-> Return(new), tbl |-> (tbl \ hit) \cup new]
     ELSE [res |-> Throw(UniqueViolation), tbl |-> tbl]

\* the two patient_id columns without .references()
PatientIsReferenced_unchecked(id, recordRows, paymentRows) == FALSE

\* medicalRecordsTable.patient_id and paymentsTable.patient_id:
\* references(() => patientsTable.id), ON DELETE NO ACTION
PatientIsReferenced(id, recordRows, paymentRows) ==
  \/ \E r \in recordRows : r.patient_id = id
  \/ \E p \in paymentRows : p.patient_id = id

\* db.delete(patientsTable).where(eq(patientsTable.id, id)).returning()
DeletePatientRows(tbl, id, recordRows, paymentRows) ==
  LET hit == {r \in tbl : r.id = id}
  IN IF hit # {} /\ PatientIsReferenced(id, recordRows, paymentRows)
     THEN [res |-> Throw(ForeignKeyViolation), tbl |-> tbl]
     ELSE [res |-> Return(hit), tbl |-> tbl \ hit]

\* doctorsTable.user_id: integer('user_id').notNull().references(() => usersTable.id)
DoctorsUserExists(row, userRows) == \E u \in userRows : u.id = row.user_id

\* db.insert(doctorsTable).values(row).returning()
InsertDoctor(tbl, row, userRows) ==
  IF DoctorsUserExists(row, userRows)
  THEN [res |-> Return(row), tbl |-> tbl \cup {row}]
  ELSE [res |-> Throw(ForeignKeyViolation), tbl |-> tbl]

\* db.update(doctorsTable).set(updateData).where(eq(doctorsTable.id, id)).returning()
UpdateDoctorRows(tbl, id, updateData) ==
  LET hit == {d \in tbl : d.id = id}
      new == {SetColumns(d, updateData) : d \in hit}
  IN [res |-> Return(new), tbl |-> (tbl \ hit) \cup new]

\* medicalRecordsTable.doctor_id: references(() => doctorsTable.id), ON DELETE NO ACTION
DoctorIsReferenced(id, recordRows) == \E r \in recordRows : r.doctor_id = id

\* db.delete(doctorsTable).where(eq(doctorsTable.id, id))
DeleteDoctorRows(tbl, id, recordRows) ==
  LET hit == {d \in tbl : d.id = id}
  IN IF hit # {} /\ DoctorIsReferenced(id, recordRows)
     THEN [res |-> Throw(ForeignKeyViolation), tbl |-> tbl]
     ELSE [res |-> Return(hit), tbl |-> tbl \ hit]

\* medicalRecordsTable.patient_id and .doctor_id: references(() => ...)
RecordsReferencesExist(row, patientRows, doctorRows) ==
  /\ \E p \in patientRows : p.id = row.patient_id
  /\ \E d \in doctorRows : d.id = row.doctor_id

\* db.insert(medicalRecordsTable).values(row).returning()
InsertRecord(tbl, row, patientRows, doctorRows) ==
  IF RecordsReferencesExist(row, patientRows, doctorRows)
  THEN [res |-> Return(row), tbl |-> tbl \cup {row}]
  ELSE [res |-> Throw(ForeignKeyViolation), tbl |-> tbl]

\* db.update(medicalRecordsTable).set(updateValues).where(eq(..., id)).returning()
UpdateRecordRows(tbl, id, updateValues) ==
  LET hit == {r \in tbl : r.id = id}
      new == {SetColumns(r, updateValues) : r \in hit}
  IN [res |-> Return(new), tbl |-> (tbl \ hit) \cup new]

\* paymentsTable.medical_record_id: references(() => medicalRecordsTable.id),
\* ON DELETE NO ACTION
RecordIsReferenced(id, paymentRows) == \E p \in paymentRows : p.medical_record_id = id

\* db.delete(medicalRecordsTable).where(eq(medicalRecordsTable.id, id))
DeleteRecordRows(tbl, id, paymentRows) ==
  LET hit == {r \in tbl : r.id = id}
  IN IF hit # {} /\ RecordIsReferenced(id, paymentRows)
     THEN [res |-> Throw(ForeignKeyViolation), tbl |-> tbl]
     ELSE [res |-> Return(hit), tbl |-> tbl \ hit]

\* paymentsTable.patient_id, .medical_record_id (nullable) and .cashier_id:
\* references(() => ...)
PaymentsReferencesExist(row, patientRows, userRows, recordRows) ==
  /\ \E p \in patientRows : p.id = row.patient_id
  /\ \E u \in userRows : u.id = row.cashier_id
  /\ row.medical_record_id # 0 => \E r \in recordRows : r.id = row.medical_record_id

(***************************************************************************)
(* Money.  A JavaScript number that is an amount is counted in thousandths *)
(* of a unit; a numeric(10, 2) column holds hundredths.  The amounts of    *)
(* the input domains are such that the floating-point sum of two of them   *)
(* is their decimal sum, or differs from it by less than the rounding of   *)
(* the column can see.                                                     *)
(***************************************************************************)
NumericOverflow == "numeric field overflow"

\* precision 10, scale 2: fewer than 10^8 whole units
NumericWholeLimit == 100000000

\* number.toString() assigned to numeric(10, 2): rounded half away from zero
ToNumeric(x) == (x + 5) \div 10

FitsNumeric(x) == ToNumeric(x) \div 100 < NumericWholeLimit

\* parseFloat(column)
parseFloat(c) == c * 10

\* db.insert(paymentsTable).values(row).returning(); the amounts of row are
\* JavaScript numbers
InsertPayment(tbl, row, patientRows, userRows, recordRows) ==
  LET stored == [row EXCEPT !.doctor_service_fee = ToNumeric(@),
                            !.medicine_fee = ToNumeric(@),
                            !.total_amount = ToNumeric(@)]
  IN IF ~(FitsNumeric(row.doctor_service_fee) /\ FitsNumeric(row.medicine_fee)
          /\ FitsNumeric(row.total_amount))
     THEN [res |-> Throw(NumericOverflow), tbl |-> tbl]
     ELSE IF ~PaymentsReceiptUnique(tbl, row)
     THEN [res |-> Throw(UniqueViolation), tbl |-> tbl]
     ELSE IF ~PaymentsReferencesExist(row, patientRows, userRows, recordRows)
     THEN [res |-> Throw(ForeignKeyViolation), tbl |-> tbl]
     ELSE [res |-> Return(stored), tbl |-> tbl \cup {stored}]

(***************************************************************************)
(* handlers/patients.ts                                                    *)
(***************************************************************************)
createPatient(input, tbl, id, nowMs) ==
  InsertPatient(tbl, [id |-> id, medical_record_number |-> input.medical_record_number,
                      full_name |-> input.full_name,
                      phone_number |-> input.phone_number,
                      address |-> input.address,
                      date_of_birth |-> input.date_of_birth,
                      created_at |-> nowMs, updated_at |-> nowMs])

updatePatient(input, tbl, nowMs) ==
  LET updateValues ==
        Opt(Has(input, "medical_record_number"),
            [medical_record_number |-> input.medical_record_number])
        @@ Opt(Has(input, "full_name"), [full_name |-> input.full_name])
        @@ Opt(Has(input, "phone_number"), [phone_number |-> input.phone_number])
        @@ Opt(Has(input, "address"), [address |-> input.address])
        @@ Opt(Has(input, "date_of_birth"), [date_of_birth |-> input.date_of_birth])
        @@ [updated_at |-> nowMs]
      result == UpdatePatientRows(tbl, input.id, updateValues)
  IN IF ~result.res.ok THEN result
     ELSE IF result.res.out = {}
       THEN [res |-> Throw("Patient with ID " \o ToString(input.id) \o " not found"),
             tbl |-> result.tbl]
     ELSE [res |-> Return(CHOOSE r \in result.res.out : TRUE), tbl |-> result.tbl]

\* A text that is searched is the sequence of its characters.
UpperCase ==
  <<"A", "B", "C", "D", "E", "F", "G", "H", "I", "J", "K", "L", "M",
    "N", "O", "P", "Q", "R", "S", "T", "U", "V", "W", "X", "Y", "Z">>
LowerCase ==
  <<"a", "b", "c", "d", "e", "f", "g", "h", "i", "j", "k", "l", "m",
    "n", "o", "p", "q", "r", "s", "t", "u", "v", "w", "x", "y", "z">>

Lower(c) ==
  IF \E i \in DOMAIN UpperCase : UpperCase[i] = c
  THEN LowerCase[CHOOSE i \in DOMAIN UpperCase : UpperCase[i] = c]
  ELSE c

\* text ILIKE pattern: % stands for any run of characters, _ for any one
\* character, a backslash takes the next character literally, and every
\* other character stands for itself in either case
RECURSIVE ILike(_, _)
ILike(text, pattern) ==
  IF pattern = <<>> THEN text = <<>>
  ELSE IF Head(pattern) = "%"
    THEN ILike(text, Tail(pattern)) \/ (text # <<>> /\ ILike(Tail(text), pattern))
  ELSE IF Head(pattern) = "_"
    THEN text # <<>> /\ ILike(Tail(text), Tail(pattern))
  ELSE IF Head(pattern) = "\\" /\ Len(pattern) > 1
    THEN /\ text # <<>>
         /\ Lower(Head(text)) = Lower(pattern[2])
         /\ ILike(Tail(text), Tail(Tail(pattern)))
  ELSE /\ text # <<>>
       /\ Lower(Head(text)) = Lower(Head(pattern))
       /\ ILike(Tail(text), Tail(pattern))

\* .limit(n).offset(k) of the rows in the order delivered
LimitOffset(rows, n, k) ==
  SubSeq(rows, k + 1, IF k + n < Len(rows) THEN k + n ELSE Len(rows))

\* order: the order in which the table delivers its rows; the array returned
\* is the field rows of the result
searchPatients(input, order) ==
  LET searchTerm == <<"%">> \o input.query \o <<"%">>
      hit(p) == \/ ILike(p.full_name, searchTerm)
                \/ ILike(p.phone_number, searchTerm)
                \/ ILike(p.medical_record_number, searchTerm)
  IN Return([rows |-> LimitOffset(SelectSeq(order, hit), input.limit, input.offset)])

getPatientById(id, tbl) ==
  LET found == {p \in tbl : p.id = id}
  IN IF found # {} THEN CHOOSE p \in found : TRUE ELSE NULL

deletePatient(id, tbl, recordRows, paymentRows) ==
  LET result == DeletePatientRows(tbl, id, recordRows, paymentRows)
  IN IF ~result.res.ok THEN result
     ELSE [res |-> Return([success |-> result.res.out # {}]), tbl |-> result.tbl]

(***************************************************************************)
(* handlers/doctors.ts: createDoctor awaits three statements in turn       *)
(***************************************************************************)
\* the first select with the existence check only, the role left untested
CreateDoctorCheckUser_anyRole(input, userRows) ==
  LET user == {u \in userRows : u.id = input.user_id}
  IN IF user = {} THEN Throw("User not found")
     ELSE Return(NULL)

\* select from usersTable where id = input.user_id, and the two checks on it
CreateDoctorCheckUser(input, userRows) ==
  LET user == {u \in userRows : u.id = input.user_id}
  IN IF user = {} THEN Throw("User not found")
     ELSE IF \E u \in user : u.role # "doctor" THEN Throw("User must have doctor role")
     ELSE Return(NULL)

\* select from doctorsTable where user_id = input.user_id, and the check on it
CreateDoctorCheckExisting(input, doctorRows) ==
  LET existingDoctor == {d \in doctorRows : d.user_id = input.user_id}
  IN IF existingDoctor # {} THEN Throw("Doctor profile already exists for this user")
     ELSE Return(NULL)

\* db.insert(doctorsTable).values({ user_id, specialization, practice_schedule })
CreateDoctorInsert(input, doctorRows, userRows, id, nowMs) ==
  InsertDoctor(doctorRows,
               [id |-> id, user_id |-> input.user_id,
                specialization |-> input.specialization,
                practice_schedule |-> input.practice_schedule,
                created_at |-> nowMs, updated_at |-> nowMs],
               userRows)

\* the whole handler, no other request in between
createDoctor(input, userRows, doctorRows, id, nowMs) ==
  LET checkUser == CreateDoctorCheckUser(input, userRows)
      checkExisting == CreateDoctorCheckExisting(input, doctorRows)
  IN IF ~checkUser.ok THEN [res |-> checkUser, tbl |-> doctorRows]
     ELSE IF ~checkExisting.ok THEN [res |-> checkExisting, tbl |-> doctorRows]
     ELSE CreateDoctorInsert(input, doctorRows, userRows, id, nowMs)

\* doctorsTable inner join usersTable on user_id, where doctors.id = id
getDoctorById(id, doctorRows, userRows) ==
  LET results == {d \in doctorRows : d.id = id /\ \E u \in userRows : u.id = d.user_id}
  IN IF results # {} THEN CHOOSE d \in results : TRUE ELSE NULL

\* the handler without the look-up of the profile; result[0] of no row is
\* undefined
updateDoctor_noLookup(input, tbl, nowMs) ==
  LET updateData ==
        Opt(Has(input, "specialization"), [specialization |-> input.specialization])
        @@ Opt(Has(input, "practice_schedule"),
               [practice_schedule |-> input.practice_schedule])
        @@ [updated_at |-> nowMs]
      result == UpdateDoctorRows(tbl, input.id, updateData)
  IN IF result.res.out = {} THEN [res |-> Return(NULL), tbl |-> result.tbl]
     ELSE [res |-> Return(CHOOSE r \in result.res.out : TRUE), tbl |-> result.tbl]

\* the whole handler, no other request in between
updateDoctor(input, tbl, nowMs) ==
  LET existingDoctor == {d \in tbl : d.id = input.id}
      updateData ==
        Opt(Has(input, "specialization"), [specialization |-> input.specialization])
        @@ Opt(Has(input, "practice_schedule"),
               [practice_schedule |-> input.practice_schedule])
        @@ [updated_at |-> nowMs]
      result == UpdateDoctorRows(tbl, input.id, updateData)
  IN IF existingDoctor = {} THEN [res |-> Throw("Doctor not found"), tbl |-> tbl]
     ELSE [res |-> Return(CHOOSE r \in result.res.out : TRUE), tbl |-> result.tbl]

\* the handler without the look-up of the doctor's medical records
deleteDoctor_unchecked(id, doctorRows, recordRows) ==
  LET result == DeleteDoctorRows(doctorRows, id, recordRows)
  IN IF ~result.res.ok THEN result
     ELSE [res |-> Return([success |-> TRUE]), tbl |-> result.tbl]

\* the handler throwing when the delete removed no row
deleteDoctor_notFound(id, doctorRows, recordRows) ==
  LET medicalRecords == {r \in recordRows : r.doctor_id = id}
  IN IF medicalRecords # {}
     THEN [res |-> Throw("Cannot delete doctor with existing medical records"),
           tbl |-> doctorRows]
     ELSE LET result == DeleteDoctorRows(doctorRows, id, recordRows)
          IN IF ~result.res.ok THEN result
             ELSE IF result.res.out = {}
               THEN [res |-> Throw("Doctor not found"), tbl |-> result.tbl]
             ELSE [res |-> Return([success |-> TRUE]), tbl |-> result.tbl]

deleteDoctor(id, doctorRows, recordRows) ==
  LET medicalRecords == {r \in recordRows : r.doctor_id = id}
  IN IF medicalRecords # {}
     THEN [res |-> Throw("Cannot delete doctor with existing medical records"),
           tbl |-> doctorRows]
     ELSE LET result == DeleteDoctorRows(doctorRows, id, recordRows)
          IN IF ~result.res.ok THEN result
             ELSE [res |-> Return([success |-> TRUE]), tbl |-> result.tbl]

(***************************************************************************)
(* handlers/medical_records.ts, each handler with no other request in      *)
(* between its statements                                                  *)
(***************************************************************************)
\* the truth value JavaScript gives a string or null
TruthyText(x) == x # "" /\ x # SqlNull

\* the handler with the doctor looked up before the patient
createMedicalRecord_doctorFirst(input, recordRows, patientRows, doctorRows, id, nowMs) ==
  IF {d \in doctorRows : d.id = input.doctor_id} = {}
  THEN [res |-> Throw("Doctor with ID " \o ToString(input.doctor_id) \o " not found"),
        tbl |-> recordRows]
  ELSE IF {p \in patientRows : p.id = input.patient_id} = {}
  THEN [res |-> Throw("Patient with ID " \o ToString(input.patient_id) \o " not found"),
        tbl |-> recordRows]
  ELSE InsertRecord(recordRows,
                    [id |-> id, patient_id |-> input.patient_id,
                     doctor_id |-> input.doctor_id, visit_date |-> input.visit_date,
                     diagnosis |-> input.diagnosis, prescription |-> input.prescription,
                     notes |-> IF Has(input, "notes") /\ TruthyText(input.notes)
                               THEN input.notes ELSE SqlNull,
                     created_at |-> nowMs, updated_at |-> nowMs],
                    patientRows, doctorRows)

createMedicalRecord(input, recordRows, patientRows, doctorRows, id, nowMs) ==
  IF {p \in patientRows : p.id = input.patient_id} = {}
  THEN [res |-> Throw("Patient with ID " \o ToString(input.patient_id) \o " not found"),
        tbl |-> recordRows]
  ELSE IF {d \in doctorRows : d.id = input.doctor_id} = {}
  THEN [res |-> Throw("Doctor with ID " \o ToString(input.doctor_id) \o " not found"),
        tbl |-> recordRows]
  ELSE InsertRecord(recordRows,
                    [id |-> id, patient_id |-> input.patient_id,
                     doctor_id |-> input.doctor_id, visit_date |-> input.visit_date,
                     diagnosis |-> input.diagnosis, prescription |-> input.prescription,
                     \* notes: input.notes || null
                     notes |-> IF Has(input, "notes") /\ TruthyText(input.notes)
                               THEN input.notes ELSE SqlNull,
                     created_at |-> nowMs, updated_at |-> nowMs],
                    patientRows, doctorRows)

getMedicalRecordById(id, tbl) ==
  LET results == {r \in tbl : r.id = id}
  IN IF results # {} THEN CHOOSE r \in results : TRUE ELSE NULL

updateMedicalRecord(input, tbl) ==
  LET existingRecord == getMedicalRecordById(input.id, tbl)
      updateValues ==
        Opt(Has(input, "diagnosis"), [diagnosis |-> input.diagnosis])
        @@ Opt(Has(input, "prescription"), [prescription |-> input.prescription])
        @@ Opt(Has(input, "notes"), [notes |-> input.notes])
      result == UpdateRecordRows(tbl, input.id, updateValues)
  IN IF existingRecord = NULL
     THEN [res |-> Throw("Medical record with ID " \o ToString(input.id) \o " not found"),
           tbl |-> tbl]
     \* Object.keys(updateValues).length === 0
     ELSE IF DOMAIN updateValues = {} THEN [res |-> Return(existingRecord), tbl |-> tbl]
     ELSE [res |-> Return(CHOOSE r \in result.res.out : TRUE), tbl |-> result.tbl]

\* the handler without the look-up of related payments
deleteMedicalRecord_unchecked(id, recordRows, paymentRows) ==
  IF getMedicalRecordById(id, recordRows) = NULL
  THEN [res |-> Throw("Medical record with ID " \o ToString(id) \o " not found"),
        tbl |-> recordRows]
  ELSE [res |-> Return([success |-> TRUE]), tbl |-> {r \in recordRows : r.id # id}]

deleteMedicalRecord(id, recordRows, paymentRows) ==
  LET relatedPayments == {p \in paymentRows : p.medical_record_id = id}
  IN IF getMedicalRecordById(id, recordRows) = NULL
     THEN [res |-> Throw("Medical record with ID " \o ToString(id) \o " not found"),
           tbl |-> recordRows]
     ELSE IF relatedPayments # {}
     THEN [res |-> Throw("Cannot delete medical record with ID " \o ToString(id)
                          \o " because it has related payments"),
           tbl |-> recordRows]
     ELSE LET result == DeleteRecordRows(recordRows, id, paymentRows)
          IN IF ~result.res.ok THEN result
             ELSE [res |-> Return([success |-> TRUE]), tbl |-> result.tbl]

(***************************************************************************)
(* handlers/payments.ts: createPayment awaits up to four statements        *)
(***************************************************************************)
CreatePaymentCheckPatient(input, patientRows) ==
  IF {p \in patientRows : p.id = input.patient_id} = {} THEN Throw("Patient not found")
  ELSE Return(NULL)

CreatePaymentCheckCashier(input, userRows) ==
  LET cashierExists == {u \in userRows : u.id = input.cashier_id}
  IN IF cashierExists = {} \/ \E u \in cashierExists : ~u.is_active
     THEN Throw("Cashier not found or inactive")
     ELSE Return(NULL)

\* if (input.medical_record_id): absent, null and 0 are all false
HasRecordId(input) == Has(input, "medical_record_id") /\ input.medical_record_id # 0

CreatePaymentCheckRecord(input, recordRows) ==
  IF HasRecordId(input) /\ {r \in recordRows : r.id = input.medical_record_id} = {}
  THEN Throw("Medical record not found")
  ELSE Return(NULL)

\* the insert, and the returned row with its amounts parsed back to numbers
CreatePaymentInsert(input, paymentRows, patientRows, userRows, recordRows, id, nowMs) ==
  LET total_amount == input.doctor_service_fee + input.medicine_fee
      result ==
        InsertPayment(paymentRows,
                      [id |-> id, patient_id |-> input.patient_id,
                       \* medical_record_id: input.medical_record_id || null
                       medical_record_id |-> IF HasRecordId(input)
                                             THEN input.medical_record_id ELSE 0,
                       cashier_id |-> input.cashier_id,
                       doctor_service_fee |-> input.doctor_service_fee,
                       medicine_fee |-> input.medicine_fee,
                       total_amount |-> total_amount,
                       payment_date |-> nowMs,
                       receipt_number |-> input.receipt_number,
                       created_at |-> nowMs, updated_at |-> nowMs],
                      patientRows, userRows, recordRows)
  IN IF ~result.res.ok THEN result
     ELSE [res |-> Return([result.res.out EXCEPT !.doctor_service_fee = parseFloat(@),
                                                 !.medicine_fee = parseFloat(@),
                                                 !.total_amount = parseFloat(@)]),
           tbl |-> result.tbl]

createPayment(input, paymentRows, patientRows, userRows, recordRows, id, nowMs) ==
  LET checkPatient == CreatePaymentCheckPatient(input, patientRows)
      checkCashier == CreatePaymentCheckCashier(input, userRows)
      checkRecord == CreatePaymentCheckRecord(input, recordRows)
  IN IF ~checkPatient.ok THEN [res |-> checkPatient, tbl |-> paymentRows]
     ELSE IF ~checkCashier.ok THEN [res |-> checkCashier, tbl |-> paymentRows]
     ELSE IF ~checkRecord.ok THEN [res |-> checkRecord, tbl |-> paymentRows]
     ELSE CreatePaymentInsert(input, paymentRows, patientRows, userRows, recordRows, id,
                              nowMs)

\* getPaymentById, and each element of getPayments and getPaymentHistory
ReadPayment(row) ==
  [row EXCEPT !.doctor_service_fee = parseFloat(@), !.medicine_fee = parseFloat(@),
              !.total_amount = parseFloat(@)]

getPaymentById(id, tbl) ==
  LET results == {p \in tbl : p.id = id}
  IN IF results = {} THEN NULL ELSE ReadPayment(CHOOSE p \in results : TRUE)

(***************************************************************************)
(* handlers/dashboard.ts.  The server's time zone is taken to be at offset *)
(* 0 without daylight saving, so that local midnight is a multiple of a    *)
(* day and setDate(getDate() + n) moves by n days of 24 hours.             *)
(***************************************************************************)
DayMs == 24 * 3600 * 1000

\* today.setHours(0, 0, 0, 0)
StartOfDay(t) == (t \div DayMs) * DayMs

\* .select({ id }).from(doctorsTable).where(eq(user_id, doctorId)).limit(1):
\* the results the statement can deliver, each a set of at most one row
DoctorRecordOfUser(doctorId, doctorRows) ==
  LET found == {d \in doctorRows : d.user_id = doctorId}
  IN IF found = {} THEN {{}} ELSE {{d} : d \in found}

\* the rows of the joined select that satisfy the conditions; arg has the
\* field doctorId unless the caller passed undefined, and doctorRecord is
\* the result of the look-up of the profile
TodaysScheduleRows(arg, doctorRecord, nowMs, recordRows, patientRows, doctorRows, userRows) ==
  LET today == StartOfDay(nowMs)
      tomorrow == today + DayMs
      inWindow(r) == r.visit_date >= today /\ r.visit_date <= tomorrow
      ofDoctor(r) ==
        (Has(arg, "doctorId") /\ doctorRecord # {}) =>
          \E d \in doctorRecord : r.doctor_id = d.id
  IN { [id |-> r.id, patient_id |-> r.patient_id, patient_name |-> p.full_name,
        patient_phone |-> p.phone_number, doctor_id |-> r.doctor_id,
        doctor_name |-> u.full_name, visit_date |-> r.visit_date,
        diagnosis |-> r.diagnosis, prescription |-> r.prescription] :
       <<r, p, d, u>> \in {x \in recordRows \X patientRows \X doctorRows \X userRows :
                             /\ x[1].patient_id = x[2].id
                             /\ x[1].doctor_id = x[3].id
                             /\ x[3].user_id = x[4].id
                             /\ inWindow(x[1])
                             /\ ofDoctor(x[1])} }

\* .orderBy(medicalRecordsTable.visit_date)
OrderedByVisitDate(rows) ==
  \A i, j \in DOMAIN rows : i < j => rows[i].visit_date <= rows[j].visit_date

\* the arrays getTodaysSchedule can return, each the field rows of a result
getTodaysSchedule(arg, doctorRecord, nowMs, recordRows, patientRows, doctorRows, userRows) ==
  {Return([rows |-> o]) :
     o \in {o \in Orderings(TodaysScheduleRows(arg, doctorRecord, nowMs, recordRows,
                                               patientRows, doctorRows, userRows)) :
              OrderedByVisitDate(o)}}

\* counts of getAdminDashboardStats; revenue and recent_activities are not
\* part of the model
getAdminDashboardStats(nowMs, patientRows, doctorRows, recordRows) ==
  LET today == StartOfDay(nowMs)
      tomorrow == today + DayMs
      weekAgo == today - 7 * DayMs
      todays == {r \in recordRows : r.visit_date >= today /\ r.visit_date <= tomorrow}
  IN Return([patients |->
               [total |-> Cardinality(patientRows),
                new_this_week |-> Cardinality({p \in patientRows : p.created_at >= weekAgo}),
                new_today |-> Cardinality({p \in patientRows : p.created_at >= today})],
             doctors |->
               [total |-> Cardinality(doctorRows),
                active_today |-> Cardinality(todays)],
             appointments_today |-> Cardinality(todays)])

(***************************************************************************)
(* Inputs the callers send.                                                *)
(***************************************************************************)
UserIds == 1..MaxUsers

FullNames == {"Ann Lee", "Bo Kim"}

CreateUserInputs ==
  [username : UsernameSet, password : Passwords, full_name : FullNames, role : RoleSet,
   is_active : BOOLEAN]

\* every optional field absent, each one present alone, and two together
UpdateUserInputs ==
  UNION {
    {[id |-> i]}
    \cup {[id |-> i, username |-> n] : n \in UsernameSet}
    \cup {[id |-> i, password |-> p] : p \in Passwords}
    \cup {[id |-> i, full_name |-> f] : f \in FullNames}
    \cup {[id |-> i, role |-> r] : r \in RoleSet}
    \cup {[id |-> i, is_active |-> a] : a \in BOOLEAN}
    \cup {[id |-> i, username |-> n, is_active |-> TRUE] : n \in UsernameSet}
    : i \in UserIds }

LoginInputs == [username : UsernameSet, password : Passwords]

\* the inputs of the users procedures
UsersInputs(proc) ==
  CASE proc = "create" -> [username : UsernameSet, password : {"pw1"},
                           full_name : {"Ann Lee"}, role : {"doctor"}, is_active : {TRUE}]
    [] proc = "getAll" -> {NULL}
    [] proc = "getById" -> UserIds
    [] proc = "update" -> {[id |-> i, role |-> "admin"] : i \in UserIds}
    [] proc = "delete" -> UserIds

DoctorIds == 1..MaxDoctors

PatientIds == 1..MaxPatients

RecordIds == 1..MaxRecords

CreateDoctorInputs ==
  [user_id : UserIds, specialization : {"cardiology"}, practice_schedule : {"mon-fri"}]

RecordNumbers == {"MRN001", "MRN002"}

Phones == {"555-0101", "555-0102"}

\* date_of_birth and visit_date: milliseconds, as the clock
CreatePatientInputs ==
  [medical_record_number : RecordNumbers, full_name : {"Ann Lee"},
   phone_number : {"555-0101"}, address : {"1 Main St"}, date_of_birth : {0}]

\* every optional field absent, each of three present alone, and two together
UpdatePatientInputs ==
  UNION {
    {[id |-> i]}
    \cup {[id |-> i, medical_record_number |-> n] : n \in RecordNumbers}
    \cup {[id |-> i, full_name |-> f] : f \in FullNames}
    \cup {[id |-> i, phone_number |-> f] : f \in Phones}
    \cup {[id |-> i, full_name |-> "Bo Kim", phone_number |-> "555-0102"]}
    : i \in PatientIds }

ReceiptNumbers == {"RCP001", "RCP002"}

\* amounts in thousandths: 0, 0.004, 75.50 and 150.00
Fees == {0, 4, 75500, 150000}

\* medical_record_id absent, 0 and an id
CreatePaymentInputs ==
  LET required == [patient_id : PatientIds, cashier_id : UserIds,
                   doctor_service_fee : Fees, medicine_fee : Fees,
                   receipt_number : ReceiptNumbers]
  IN required \cup {r @@ [medical_record_id |-> m] : r \in required, m \in {0} \cup RecordIds}

\* the three segments of a token the server issued
Seg(token, i) == Nth(split(token), i)

ReplaceSeg(token, i, r) ==
  Dotted(IF i = 1 THEN r ELSE Seg(token, 1),
         IF i = 2 THEN r ELSE Seg(token, 2),
         IF i = 3 THEN r ELSE Seg(token, 3))

\* what a forger puts in place of a segment: nothing, junk, a segment of any
\* issued token, the claims of an issued token with another role, id or
\* expiry, and digests computed without the server's secret
ForgedSegs(issued) ==
  {<<>>, <<9>>}
  \cup {Seg(t, i) : t \in issued, i \in 1..3}
  \cup UNION { LET p == DecodePayload(Seg(t, 2))
               IN {EncodePayload([p EXCEPT !.role = "admin"]),
                   EncodePayload([p EXCEPT !.id = (p.id % MaxUsers) + 1]),
                   EncodePayload([p EXCEPT !.exp = p.exp + 1]),
                   sha256(Dotted(Seg(t, 1), Seg(t, 2), <<>>)),
                   sha256(Seg(t, 2))} : t \in issued }

\* an issued token with one segment replaced by a different value
Tampered(issued) ==
  LET forged == ForgedSegs(issued)
  IN {ReplaceSeg(t, i, r) : t \in issued, i \in 1..3, r \in forged} \ issued

\* strings that do not split into exactly three non-empty segments
Malformed(issued) ==
  {<<>>, <<9>>, <<9, DOT, 9>>, <<DOT, DOT>>, <<9, DOT, DOT, 9>>}
  \cup {t \o <<DOT, 9>> : t \in issued}
  \cup {t \o <<DOT>> : t \in issued}
  \cup {Seg(t, 1) \o <<DOT>> \o Seg(t, 2) : t \in issued}

Issued == {t.token : t \in tokens}

TokenInputs == Issued \cup Tampered(Issued) \cup Malformed(Issued)

(***************************************************************************)
(* Actions: one handler call each, from request to response.               *)
(***************************************************************************)
Call(op, input, res) == [op |-> op, in |-> input, res |-> res]

Conns == 1..MaxConns

Idle == [op |-> "idle", in |-> NULL, pc |-> "idle"]

OtherTablesUnchanged ==
  UNCHANGED <<doctors, nextDoctorId, patients, nextPatientId, records, nextRecordId,
              payments, nextPaymentId>>

\* the tests' fixture: db.insert(usersTable).values({ ...,
\* password_hash: createPasswordHash(password) })
SeedUser(inputs) ==
  \E input \in inputs, rnd \in Salts :
    /\ nextUserId <= MaxUsers
    /\ LET r == InsertUser(users, [id |-> nextUserId, username |-> input.username,
                                   password_hash |-> createPasswordHash(input.password, rnd),
                                   full_name |-> input.full_name,
                                   role |-> input.role, is_active |-> input.is_active,
                                   created_at |-> now, updated_at |-> now])
       IN /\ users' = r.tbl
          /\ nextUserId' = IF r.res.ok THEN nextUserId + 1 ELSE nextUserId
          /\ last' = Call("seedUser", input, r.res)
    /\ OtherTablesUnchanged
    /\ UNCHANGED <<now, tokens, reqs>>

CreateUser(inputs) ==
  \E input \in inputs, rnd \in Salts :
    /\ nextUserId <= MaxUsers
    /\ LET r == createUser(input, rnd, users, nextUserId, now)
       IN /\ users' = r.tbl
          /\ nextUserId' = IF r.res.ok THEN nextUserId + 1 ELSE nextUserId
          /\ last' = Call("createUser", input, r.res)
    /\ OtherTablesUnchanged
    /\ UNCHANGED <<now, tokens, reqs>>

UpdateUser(inputs) ==
  \E input \in inputs, rnd \in Salts :
    /\ LET r == updateUser(input, rnd, users, now)
       IN /\ users' = r.tbl
          /\ last' = Call("updateUser", input, r.res)
    /\ OtherTablesUnchanged
    /\ UNCHANGED <<nextUserId, now, tokens, reqs>>

DeleteUser ==
  \E id \in UserIds :
    /\ LET r == deleteUser(id, users, doctors, payments)
       IN /\ users' = r.tbl
          /\ last' = Call("deleteUser", id, r.res)
    /\ OtherTablesUnchanged
    /\ UNCHANGED <<nextUserId, now, tokens, reqs>>

LoginUser(inputs) ==
  \E input \in inputs, rnd \in Salts :
    LET r == loginUser(input, rnd, users, now)
        issued == IF r.ok
                  THEN {[token |-> r.out.token, id |-> r.out.user.id, iat |-> now,
                         rejected |-> FALSE]}
                  ELSE {}
    IN /\ Cardinality(tokens \cup issued) <= MaxTokens
       /\ tokens' = tokens \cup issued
       /\ last' = Call("loginUser", input, r)
       /\ OtherTablesUnchanged
       /\ UNCHANGED <<users, nextUserId, now, reqs>>

\* tokens remembers which issued tokens validateToken has rejected
ValidateToken(inputs) ==
  \E token \in inputs :
    LET r == validateToken(token, users, now)
    IN /\ tokens' = {IF t.token = token /\ ~r.ok THEN [t EXCEPT !.rejected = TRUE] ELSE t
                     : t \in tokens}
       /\ last' = Call("validateToken", token, r)
       /\ OtherTablesUnchanged
       /\ UNCHANGED <<users, nextUserId, now, reqs>>

\* time passes: half a second, or half a day
HalfSecondMs == 1000 \div 2
HalfDayMs == 12 * 3600 * 1000

TickHalfSecond ==
  /\ (now % HalfDayMs) \div HalfSecondMs < MaxSubTicks
  /\ now' = now + HalfSecondMs
  /\ last' = Call("tick", NULL, Return(NULL))
  /\ OtherTablesUnchanged
  /\ UNCHANGED <<users, nextUserId, tokens, reqs>>

TickHalfDay ==
  /\ now \div HalfDayMs < MaxHalfDays
  /\ now' = now + HalfDayMs
  /\ last' = Call("tick", NULL, Return(NULL))
  /\ OtherTablesUnchanged
  /\ UNCHANGED <<users, nextUserId, tokens, reqs>>

CreateDoctor ==
  \E input \in CreateDoctorInputs :
    /\ nextDoctorId <= MaxDoctors
    /\ LET r == createDoctor(input, users, doctors, nextDoctorId, now)
       IN /\ doctors' = r.tbl
          /\ nextDoctorId' = IF r.res.ok THEN nextDoctorId + 1 ELSE nextDoctorId
          /\ last' = Call("createDoctor", input, r.res)
    /\ UNCHANGED <<users, nextUserId, patients, nextPatientId, records, nextRecordId,
                   payments, nextPaymentId, now, tokens, reqs>>

DeleteDoctor ==
  \E id \in DoctorIds :
    /\ LET r == deleteDoctor(id, doctors, records)
       IN /\ doctors' = r.tbl
          /\ last' = Call("deleteDoctor", id, r.res)
    /\ UNCHANGED <<users, nextUserId, nextDoctorId, patients, nextPatientId, records,
                   nextRecordId, payments, nextPaymentId, now, tokens, reqs>>

CreatePatient(inputs) ==
  \E input \in inputs :
    /\ nextPatientId <= MaxPatients
    /\ LET r == createPatient(input, patients, nextPatientId, now)
       IN /\ patients' = r.tbl
          /\ nextPatientId' = IF r.res.ok THEN nextPatientId + 1 ELSE nextPatientId
          /\ last' = Call("createPatient", input, r.res)
    /\ UNCHANGED <<users, nextUserId, doctors, nextDoctorId, records, nextRecordId,
                   payments, nextPaymentId, now, tokens, reqs>>

UpdatePatient(inputs) ==
  \E input \in inputs :
    /\ LET r == updatePatient(input, patients, now)
       IN /\ patients' = r.tbl
          /\ last' = Call("updatePatient", input, r.res)
    /\ UNCHANGED <<users, nextUserId, doctors, nextDoctorId, nextPatientId, records,
                   nextRecordId, payments, nextPaymentId, now, tokens, reqs>>

(***************************************************************************)
(* The remaining handlers, one call each.                                  *)
(***************************************************************************)
KeepUsers == UNCHANGED <<users, nextUserId>>
KeepDoctors == UNCHANGED <<doctors, nextDoctorId>>
KeepPatients == UNCHANGED <<patients, nextPatientId>>
KeepRecords == UNCHANGED <<records, nextRecordId>>
KeepPayments == UNCHANGED <<payments, nextPaymentId>>
KeepRest == UNCHANGED <<now, tokens, reqs>>

DeletePatient ==
  \E id \in PatientIds :
    /\ LET r == deletePatient(id, patients, records, payments)
       IN /\ patients' = r.tbl
          /\ last' = Call("deletePatient", id, r.res)
    /\ UNCHANGED nextPatientId
    /\ KeepUsers /\ KeepDoctors /\ KeepRecords /\ KeepPayments /\ KeepRest

UpdateDoctor(inputs) ==
  \E input \in inputs :
    /\ LET r == updateDoctor(input, doctors, now)
       IN /\ doctors' = r.tbl
          /\ last' = Call("updateDoctor", input, r.res)
    /\ UNCHANGED nextDoctorId
    /\ KeepUsers /\ KeepPatients /\ KeepRecords /\ KeepPayments /\ KeepRest

CreateMedicalRecord(inputs) ==
  \E input \in inputs :
    /\ nextRecordId <= MaxRecords
    /\ LET r == createMedicalRecord(input, records, patients, doctors, nextRecordId, now)
       IN /\ records' = r.tbl
          /\ nextRecordId' = IF r.res.ok THEN nextRecordId + 1 ELSE nextRecordId
          /\ last' = Call("createMedicalRecord", input, r.res)
    /\ KeepUsers /\ KeepDoctors /\ KeepPatients /\ KeepPayments /\ KeepRest

UpdateMedicalRecord(inputs) ==
  \E input \in inputs :
    /\ LET r == updateMedicalRecord(input, records)
       IN /\ records' = r.tbl
          /\ last' = Call("updateMedicalRecord", input, r.res)
    /\ UNCHANGED nextRecordId
    /\ KeepUsers /\ KeepDoctors /\ KeepPatients /\ KeepPayments /\ KeepRest

DeleteMedicalRecord ==
  \E id \in RecordIds :
    /\ LET r == deleteMedicalRecord(id, records, payments)
       IN /\ records' = r.tbl
          /\ last' = Call("deleteMedicalRecord", id, r.res)
    /\ UNCHANGED nextRecordId
    /\ KeepUsers /\ KeepDoctors /\ KeepPatients /\ KeepPayments /\ KeepRest

CreatePayment(inputs) ==
  \E input \in inputs :
    /\ nextPaymentId <= MaxPayments
    /\ LET r == createPayment(input, payments, patients, users, records, nextPaymentId, now)
       IN /\ payments' = r.tbl
          /\ nextPaymentId' = IF r.res.ok THEN nextPaymentId + 1 ELSE nextPaymentId
          /\ last' = Call("createPayment", input, r.res)
    /\ KeepUsers /\ KeepDoctors /\ KeepPatients /\ KeepRecords /\ KeepRest

SearchPatients(inputs) ==
  \E input \in inputs, order \in Orderings(patients) :
    /\ last' = Call("searchPatients", input, searchPatients(input, order))
    /\ KeepUsers /\ KeepDoctors /\ KeepPatients /\ KeepRecords /\ KeepPayments /\ KeepRest

GetTodaysSchedule(args) ==
  \E arg \in args :
    \E doctorRecord \in (IF Has(arg, "doctorId")
                          THEN DoctorRecordOfUser(arg.doctorId, doctors) ELSE {{}}) :
      \E res \in getTodaysSchedule(arg, doctorRecord, now, records, patients, doctors,
                                    users) :
        /\ last' = Call("getTodaysSchedule", arg, res)
        /\ KeepUsers /\ KeepDoctors /\ KeepPatients /\ KeepRecords /\ KeepPayments
        /\ KeepRest

\* dashboard.getStats with userRole 'admin'
GetAdminDashboardStats ==
  /\ last' = Call("getDashboardStats", [userRole |-> "admin"],
                  getAdminDashboardStats(now, patients, doctors, records))
  /\ KeepUsers /\ KeepDoctors /\ KeepPatients /\ KeepRecords /\ KeepPayments /\ KeepRest

\* createHTTPServer({ createContext() { return {}; } }): the context of a
\* request, whatever its headers
createContext(req) == <<>>

\* appRouter.users: publicProcedure.input(...).query or .mutation of
\* ({ input }) => handler(input); ctx is not among the arguments
usersRouter(proc, input, ctx, rnd, order, userRows, doctorRows, paymentRows, id, nowMs) ==
  CASE proc = "create" -> createUser(input, rnd, userRows, id, nowMs)
    [] proc = "getAll" -> [res |-> getUsers(order), tbl |-> userRows]
    [] proc = "getById" -> [res |-> Return(getUserById(input, userRows)), tbl |-> userRows]
    [] proc = "update" -> updateUser(input, rnd, userRows, nowMs)
    [] proc = "delete" -> deleteUser(input, userRows, doctorRows, paymentRows)

\* an HTTP request to a users procedure; req.authorization is the token the
\* caller presents, <<>> when there is none
UsersRequest(authorizations) ==
  \E proc \in {"create", "getAll", "getById", "update", "delete"},
     authorization \in authorizations, rnd \in Salts, order \in Orderings(users) :
    \E input \in UsersInputs(proc) :
      LET req == [authorization |-> authorization, input |-> input]
          r == usersRouter(proc, input, createContext(req), rnd, order, users,
                           doctors, payments, nextUserId, now)
      IN /\ proc = "create" => nextUserId <= MaxUsers
         /\ users' = r.tbl
         /\ nextUserId' = IF proc = "create" /\ r.res.ok THEN nextUserId + 1 ELSE nextUserId
         /\ last' = Call("users." \o proc, req, r.res)
         /\ OtherTablesUnchanged
         /\ UNCHANGED <<now, tokens, reqs>>

\* a week passes
TickWeek ==
  /\ now \div (7 * DayMs) < MaxWeeks
  /\ now' = now + 7 * DayMs
  /\ last' = Call("tick", NULL, Return(NULL))
  /\ KeepUsers /\ KeepDoctors /\ KeepPatients /\ KeepRecords /\ KeepPayments
  /\ UNCHANGED <<tokens, reqs>>

\* a millisecond passes
Tick ==
  /\ now < MaxTicks
  /\ now' = now + 1
  /\ last' = Call("tick", NULL, Return(NULL))
  /\ KeepUsers /\ KeepDoctors /\ KeepPatients /\ KeepRecords /\ KeepPayments
  /\ UNCHANGED <<tokens, reqs>>

(***************************************************************************)
(* Concurrent requests.  A handler runs from one await to the next without *)
(* interruption; each await is one statement, which the database executes  *)
(* atomically.  reqs[c] is the request connection c is serving and pc the  *)
(* statement it is about to send.  A handler that sends a single statement *)
(* is one step.                                                            *)
(***************************************************************************)
Await(c) == [op |-> "await", in |-> c, res |-> Return(NULL)]

\* connection c moves to its next statement, or ends with the result res
Proceed(c, op, input, res, nextPc) ==
  IF res.ok
  THEN /\ reqs' = [reqs EXCEPT ![c] = [op |-> op, in |-> input, pc |-> nextPc]]
       /\ last' = Await(c)
  ELSE /\ reqs' = [reqs EXCEPT ![c] = Idle]
       /\ last' = Call(op, input, res)

CreateDoctorSelectUser(c) ==
  \E input \in CreateDoctorInputs :
    /\ reqs[c] = Idle
    /\ Proceed(c, "createDoctor", input, CreateDoctorCheckUser(input, users),
               "selectExisting")
    /\ UNCHANGED <<users, nextUserId, doctors, nextDoctorId, patients, nextPatientId,
                   records, nextRecordId, payments, nextPaymentId, now, tokens>>

CreateDoctorSelectExisting(c) ==
  /\ reqs[c].op = "createDoctor" /\ reqs[c].pc = "selectExisting"
  /\ Proceed(c, "createDoctor", reqs[c].in, CreateDoctorCheckExisting(reqs[c].in, doctors),
             "insert")
  /\ UNCHANGED <<users, nextUserId, doctors, nextDoctorId, patients, nextPatientId,
                 records, nextRecordId, payments, nextPaymentId, now, tokens>>

CreateDoctorInsertRow(c) ==
  /\ reqs[c].op = "createDoctor" /\ reqs[c].pc = "insert"
  /\ nextDoctorId <= MaxDoctors
  /\ LET r == CreateDoctorInsert(reqs[c].in, doctors, users, nextDoctorId, now)
     IN /\ doctors' = r.tbl
        /\ nextDoctorId' = IF r.res.ok THEN nextDoctorId + 1 ELSE nextDoctorId
        /\ last' = Call("createDoctor", reqs[c].in, r.res)
  /\ reqs' = [reqs EXCEPT ![c] = Idle]
  /\ UNCHANGED <<users, nextUserId, patients, nextPatientId, records, nextRecordId,
                 payments, nextPaymentId, now, tokens>>

CreatePaymentSelectPatient(c, inputs) ==
  \E input \in inputs :
    /\ reqs[c] = Idle
    /\ Proceed(c, "createPayment", input, CreatePaymentCheckPatient(input, patients),
               "selectCashier")
    /\ UNCHANGED <<users, nextUserId, doctors, nextDoctorId, patients, nextPatientId,
                   records, nextRecordId, payments, nextPaymentId, now, tokens>>

CreatePaymentSelectCashier(c) ==
  /\ reqs[c].op = "createPayment" /\ reqs[c].pc = "selectCashier"
  \* without a medical_record_id the next statement is the insert
  /\ Proceed(c, "createPayment", reqs[c].in, CreatePaymentCheckCashier(reqs[c].in, users),
             IF HasRecordId(reqs[c].in) THEN "selectRecord" ELSE "insert")
  /\ UNCHANGED <<users, nextUserId, doctors, nextDoctorId, patients, nextPatientId,
                 records, nextRecordId, payments, nextPaymentId, now, tokens>>

CreatePaymentSelectRecord(c) ==
  /\ reqs[c].op = "createPayment" /\ reqs[c].pc = "selectRecord"
  /\ Proceed(c, "createPayment", reqs[c].in, CreatePaymentCheckRecord(reqs[c].in, records),
             "insert")
  /\ UNCHANGED <<users, nextUserId, doctors, nextDoctorId, patients, nextPatientId,
                 records, nextRecordId, payments, nextPaymentId, now, tokens>>

CreatePaymentInsertRow(c) ==
  /\ reqs[c].op = "createPayment" /\ reqs[c].pc = "insert"
  /\ nextPaymentId <= MaxPayments
  /\ LET r == CreatePaymentInsert(reqs[c].in, payments, patients, users, records,
                                  nextPaymentId, now)
     IN /\ payments' = r.tbl
        /\ nextPaymentId' = IF r.res.ok THEN nextPaymentId + 1 ELSE nextPaymentId
        /\ last' = Call("createPayment", reqs[c].in, r.res)
  /\ reqs' = [reqs EXCEPT ![c] = Idle]
  /\ UNCHANGED <<users, nextUserId, doctors, nextDoctorId, patients, nextPatientId,
                 records, nextRecordId, now, tokens>>

(***************************************************************************)
(* Specifications.                                                         *)
(***************************************************************************)
Init ==
  /\ users = {} /\ nextUserId = 1
  /\ doctors = {} /\ nextDoctorId = 1
  /\ patients = {} /\ nextPatientId = 1
  /\ records = {} /\ nextRecordId = 1
  /\ payments = {} /\ nextPaymentId = 1
  /\ now = 0
  /\ tokens = {}
  /\ reqs = [c \in Conns |-> Idle]
  /\ last = Call("init", NULL, Return(NULL))

\* Accounts, sessions and the clock.  Accounts that can log in come from the
\* fixture; createUser's accounts hold a Bun digest.
AuthSeedInputs ==
  [username : UsernameSet, password : {"pw1"}, full_name : {"Ann Lee"},
   role : {"doctor"}, is_active : BOOLEAN]

AuthCreateInputs ==
  [username : UsernameSet, password : {"pw1"}, full_name : {"Ann Lee"},
   role : {"receptionist"}, is_active : {TRUE}]

AuthUpdateInputs ==
  UNION { {[id |-> i, role |-> "admin"]} \cup {[id |-> i, is_active |-> a] : a \in BOOLEAN}
          : i \in UserIds }

AuthLoginInputs == [username : UsernameSet, password : {"pw1"}]

\* The accounts are created while the clock reads 0 and updated on a half-day
\* mark, which keeps the values of their timestamp columns (no session depends
\* on them) few; tokens are issued and presented, and accounts deleted, at any
\* time.
NextAuth ==
  \/ now = 0 /\ SeedUser(AuthSeedInputs)
  \/ now = 0 /\ CreateUser(AuthCreateInputs)
  \/ now % HalfDayMs = 0 /\ UpdateUser(AuthUpdateInputs)
  \/ DeleteUser
  \/ LoginUser(AuthLoginInputs)
  \/ ValidateToken(Issued \cup {<<>>})
  \/ TickHalfSecond
  \/ TickHalfDay

SpecAuth == Init /\ [][NextAuth]_vars

\* Logging in: accounts of both kinds, with either password, active or not.
LoginSeedInputs ==
  [username : UsernameSet, password : Passwords, full_name : {"Ann Lee"},
   role : {"doctor"}, is_active : BOOLEAN]

LoginUpdateInputs ==
  UNION { {[id |-> i, password |-> "pw2"]} \cup {[id |-> i, is_active |-> a] : a \in BOOLEAN}
          : i \in UserIds }

NextLogin ==
  \/ SeedUser(LoginSeedInputs)
  \/ CreateUser(AuthCreateInputs)
  \/ UpdateUser(LoginUpdateInputs)
  \/ DeleteUser
  \/ LoginUser(LoginInputs)

SpecLogin == Init /\ [][NextLogin]_vars

\* Forgery: issued tokens, tokens altered in one segment and malformed
\* strings, presented while the account is active or not, before and after
\* the expiry.
ForgeSeedInputs ==
  [username : UsernameSet, password : {"pw1"}, full_name : {"Ann Lee"},
   role : {"doctor"}, is_active : {TRUE}]

ForgeUpdateInputs == {[id |-> i, is_active |-> a] : i \in UserIds, a \in BOOLEAN}

\* (the accounts are written while the clock reads 0)
NextForge ==
  \/ now = 0 /\ SeedUser(ForgeSeedInputs)
  \/ now = 0 /\ UpdateUser(ForgeUpdateInputs)
  \/ LoginUser(AuthLoginInputs)
  \/ ValidateToken(TokenInputs)
  \/ TickHalfDay

SpecForge == Init /\ [][NextForge]_vars

\* The tables, one handler call at a time.
DbCreateInputs ==
  [username : UsernameSet, password : {"pw1"}, full_name : {"Ann Lee"},
   role : {"doctor", "receptionist"},
   is_active : {TRUE}]

DbUpdateInputs ==
  {[id |-> i, role |-> r] : i \in UserIds, r \in {"doctor", "admin"}}

Next ==
  \/ CreateUser(DbCreateInputs)
  \/ UpdateUser(DbUpdateInputs)
  \/ DeleteUser
  \/ CreateDoctor
  \/ DeleteDoctor

Spec == Init /\ [][Next]_vars

\* Concurrent createDoctor requests, statement by statement.
NextConc ==
  \/ CreateUser(DbCreateInputs)
  \/ UpdateUser(DbUpdateInputs)
  \/ \E c \in Conns : CreateDoctorSelectUser(c)
  \/ \E c \in Conns : CreateDoctorSelectExisting(c)
  \/ \E c \in Conns : CreateDoctorInsertRow(c)

SpecConc == Init /\ [][NextConc]_vars

\* Creates and updates of the rows that hold a unique column; createPayment
\* requests run concurrently, statement by statement.
UniqueCreateInputs ==
  [username : UsernameSet, password : {"pw1"}, full_name : {"Ann Lee"},
   role : {"receptionist"}, is_active : {TRUE}]

UniqueUpdateInputs ==
  {[id |-> i, username |-> n] : i \in UserIds, n \in UsernameSet}

UniquePatientUpdates ==
  {[id |-> i] : i \in PatientIds}
  \cup {[id |-> i, medical_record_number |-> n] : i \in PatientIds, n \in RecordNumbers}

UniquePaymentInputs ==
  [patient_id : {1}, medical_record_id : {0, 1}, cashier_id : {1},
   doctor_service_fee : {150000}, medicine_fee : {75500}, receipt_number : ReceiptNumbers]

NextUnique ==
  \/ CreateUser(UniqueCreateInputs)
  \/ UpdateUser(UniqueUpdateInputs)
  \/ CreatePatient(CreatePatientInputs)
  \/ UpdatePatient(UniquePatientUpdates)
  \/ \E c \in Conns : CreatePaymentSelectPatient(c, UniquePaymentInputs)
  \/ \E c \in Conns : CreatePaymentSelectCashier(c)
  \/ \E c \in Conns : CreatePaymentSelectRecord(c)
  \/ \E c \in Conns : CreatePaymentInsertRow(c)

SpecUnique == Init /\ [][NextUnique]_vars

\* Patients, clinician profiles, visit records and payments with the rows
\* they reference: creating and deleting, one handler call at a time.
ClinicUserInputs ==
  [username : UsernameSet, password : {"pw1"}, full_name : {"Ann Lee"},
   role : {"doctor"}, is_active : {TRUE}]

ClinicUserUpdates == {[id |-> 1, is_active |-> a] : a \in BOOLEAN}

ClinicPatientInputs ==
  [medical_record_number : {"MRN001"}, full_name : {"Ann Lee"},
   phone_number : {"555-0101"}, address : {"1 Main St"}, date_of_birth : {0}]

ClinicRecordInputs ==
  [patient_id : PatientIds, doctor_id : DoctorIds, visit_date : {0},
   diagnosis : {"flu"}, prescription : {"fluids"}]

ClinicPaymentInputs ==
  LET required == [patient_id : PatientIds, cashier_id : UserIds,
                   doctor_service_fee : {150000}, medicine_fee : {75500},
                   receipt_number : {"RCP001"}]
  IN required \cup {r @@ [medical_record_id |-> m] : r \in required, m \in {0} \cup RecordIds}

NextClinic ==
  \/ CreateUser(ClinicUserInputs)
  \/ UpdateUser(ClinicUserUpdates)
  \/ DeleteUser
  \/ CreatePatient(ClinicPatientInputs)
  \/ DeletePatient
  \/ CreateDoctor
  \/ DeleteDoctor
  \/ CreateMedicalRecord(ClinicRecordInputs)
  \/ DeleteMedicalRecord
  \/ CreatePayment(ClinicPaymentInputs)

SpecClinic == Init /\ [][NextClinic]_vars

\* Payments and their amounts.
PayUserInputs ==
  [username : {"alice"}, password : {"pw1"}, full_name : {"Ann Lee"},
   role : {"receptionist"}, is_active : {TRUE}]

PayInputs ==
  [patient_id : {1}, cashier_id : {1}, doctor_service_fee : Fees, medicine_fee : Fees,
   receipt_number : ReceiptNumbers]

NextPay ==
  \/ CreateUser(PayUserInputs)
  \/ CreatePatient(ClinicPatientInputs)
  \/ CreatePayment(PayInputs)

SpecPay == Init /\ [][NextPay]_vars

\* Updates of the four tables, one handler call at a time, while the clock
\* advances.  The rows are created while the clock reads 0 and updated
\* once it has advanced.
UpdateAccountInputs ==
  [username : {"alice"}, password : {"pw1"}, full_name : {"Ann Lee"},
   role : {"doctor"}, is_active : {TRUE}]

UpdateUserChanges ==
  UNION { {[id |-> i], [id |-> i, full_name |-> "Bo Kim"],
           [id |-> i, role |-> "admin", is_active |-> FALSE]} : i \in UserIds }

UpdatePatientChanges ==
  UNION { {[id |-> i], [id |-> i, full_name |-> "Bo Kim"],
           [id |-> i, full_name |-> "Bo Kim", phone_number |-> "555-0102"]}
          : i \in PatientIds }

UpdateDoctorChanges ==
  UNION { {[id |-> i], [id |-> i, specialization |-> "dermatology"],
           [id |-> i, specialization |-> "dermatology", practice_schedule |-> "sat"]}
          : i \in DoctorIds }

UpdateRecordInputs ==
  [patient_id : {1}, doctor_id : {1}, visit_date : {0}, diagnosis : {"flu"},
   prescription : {"fluids"}, notes : {"rest"}]

UpdateRecordChanges ==
  UNION { {[id |-> i], [id |-> i, notes |-> SqlNull],
           [id |-> i, diagnosis |-> "cold", prescription |-> "tea"]} : i \in RecordIds }

NextUpdate ==
  \/ now = 0 /\ CreateUser(UpdateAccountInputs)
  \/ now = MaxTicks /\ UpdateUser(UpdateUserChanges)
  \/ now = 0 /\ CreatePatient(CreatePatientInputs)
  \/ now = MaxTicks /\ UpdatePatient(UpdatePatientChanges)
  \/ now = 0 /\ CreateDoctor
  \/ now = MaxTicks /\ UpdateDoctor(UpdateDoctorChanges)
  \/ now = 0 /\ CreateMedicalRecord(UpdateRecordInputs)
  \/ now = MaxTicks /\ UpdateMedicalRecord(UpdateRecordChanges)
  \/ Tick

SpecUpdate == Init /\ [][NextUpdate]_vars

\* Tokens presented after the account's username or role has changed.
StoredUpdateInputs ==
  UNION { {[id |-> i, role |-> "admin"]} \cup {[id |-> i, username |-> n] : n \in UsernameSet}
          : i \in UserIds }

NextStored ==
  \/ SeedUser(ForgeSeedInputs)
  \/ UpdateUser(StoredUpdateInputs)
  \/ LoginUser(AuthLoginInputs)
  \/ ValidateToken(Issued)

SpecStored == Init /\ [][NextStored]_vars

\* Rows and the rows they reference: creating and deleting in all five
\* tables, the createDoctor and createPayment requests running concurrently
\* with everything else, statement by statement.
IntegrityPaymentInputs ==
  [patient_id : {1}, medical_record_id : {0, 1}, cashier_id : {1},
   doctor_service_fee : {150000}, medicine_fee : {75500}, receipt_number : {"RCP001"}]

NextIntegrity ==
  \/ CreateUser(UpdateAccountInputs)
  \/ DeleteUser
  \/ CreatePatient(ClinicPatientInputs)
  \/ DeletePatient
  \/ \E c \in Conns : CreateDoctorSelectUser(c)
  \/ \E c \in Conns : CreateDoctorSelectExisting(c)
  \/ \E c \in Conns : CreateDoctorInsertRow(c)
  \/ DeleteDoctor
  \/ CreateMedicalRecord(UpdateRecordInputs)
  \/ DeleteMedicalRecord
  \/ \E c \in Conns : CreatePaymentSelectPatient(c, IntegrityPaymentInputs)
  \/ \E c \in Conns : CreatePaymentSelectCashier(c)
  \/ \E c \in Conns : CreatePaymentSelectRecord(c)
  \/ \E c \in Conns : CreatePaymentInsertRow(c)

SpecIntegrity == Init /\ [][NextIntegrity]_vars

\* The users procedures, called with no token, with the token of an
\* administrator and with the token of another account.
AccessSeedInputs ==
  {[username |-> "alice", password |-> "pw1", full_name |-> "Ann Lee", role |-> "admin",
    is_active |-> TRUE],
   [username |-> "bob", password |-> "pw1", full_name |-> "Bo Kim", role |-> "doctor",
    is_active |-> TRUE]}

NextAccess ==
  \/ SeedUser(AccessSeedInputs)
  \/ LoginUser(AuthLoginInputs)
  \/ UsersRequest(Issued \cup {<<>>})

SpecAccess == Init /\ [][NextAccess]_vars

\* The dashboard.  Accounts, profiles and visits are entered while the clock
\* reads 0, patients at any time; visits are dated at the midnights of the
\* first three days, a millisecond before the second and at its noon.
ScheduleRecordInputs ==
  [patient_id : {1}, doctor_id : {1}, diagnosis : {"flu"}, prescription : {"fluids"},
   visit_date : {0, DayMs - 1, DayMs, DayMs + HalfDayMs, 2 * DayMs}]

\* no account given, and each account id
ScheduleArgs == {<<>>} \cup {[doctorId |-> i] : i \in UserIds}

NextDashboard ==
  \/ now = 0 /\ CreateUser(ClinicUserInputs)
  \/ now = 0 /\ CreateDoctor
  \/ CreatePatient(CreatePatientInputs)
  \/ now = 0 /\ CreateMedicalRecord(ScheduleRecordInputs)
  \/ TickHalfDay
  \/ TickWeek
  \/ GetTodaysSchedule(ScheduleArgs)
  \/ GetAdminDashboardStats

SpecDashboard == Init /\ [][NextDashboard]_vars

\* Searching patients.  The texts are sequences of characters; a query has
\* one or two characters, among them the two that LIKE reads as wildcards.
SearchPatientInputs ==
  [medical_record_number : {<<"M", "1">>, <<"M", "2">>},
   full_name : {<<"A", "n">>, <<"b", "o">>},
   phone_number : {<<"0", "7">>}, address : {<<"x">>}, date_of_birth : {0}]

QueryChars == {"a", "N", "7", "_", "%"}

Queries == {<<c>> : c \in QueryChars} \cup {<<c, d>> : c \in QueryChars, d \in QueryChars}

SearchInputs == [query : Queries, limit : 1..MaxPatients, offset : 0..1]

NextSearch ==
  \/ CreatePatient(SearchPatientInputs)
  \/ SearchPatients(SearchInputs)

SpecSearch == Init /\ [][NextSearch]_vars

\* Creation of the four entities and reading them back.  notes is absent,
\* null, the empty string and a text.
CreateRecordInputs ==
  LET required == [patient_id : {1}, doctor_id : {1}, visit_date : {0},
                   diagnosis : {"flu"}, prescription : {"fluids"}]
  IN required \cup {r @@ [notes |-> n] : r \in required, n \in {"", "rest", SqlNull}}

CreatePaymentSomeInputs ==
  LET required == [patient_id : {1}, cashier_id : {1}, doctor_service_fee : {150000},
                   medicine_fee : {75500}, receipt_number : ReceiptNumbers]
  IN required \cup {r @@ [medical_record_id |-> 1] : r \in required}

NextCreate ==
  \/ CreateUser(UpdateAccountInputs)
  \/ CreatePatient(ClinicPatientInputs)
  \/ CreateDoctor
  \/ CreateMedicalRecord(CreateRecordInputs)
  \/ CreatePayment(CreatePaymentSomeInputs)

SpecCreate == Init /\ [][NextCreate]_vars

(***************************************************************************)
(* Sessions (SpecAuth).                                                    *)
(***************************************************************************)
\* the expiry of an issued token, from the time loginUser returned it
ExpirySeconds(t) == (t.iat \div 1000) + 24 * 3600

Unexpired(t) == now <= ExpirySeconds(t) * 1000

AccountOf(t) == {u \in users : u.id = t.id}

ActiveAccount(t) == \E u \in AccountOf(t) : u.is_active

\* C1: while an issued, unmodified token is not past its expiry, validateToken
\* accepts it exactly when the account with the token's id exists and is
\* active; it then returns that account's id, username and role, and otherwise
\* fails with 'User not found or inactive'.  The token loginUser has just
\* returned is accepted.
C1_ValidIffAccountActive ==
  /\ \A t \in tokens :
       Unexpired(t) =>
         LET r == validateToken(t.token, users, now)
         IN /\ r.ok <=> ActiveAccount(t)
            /\ r.ok => \A u \in AccountOf(t) :
                         r.out = [id |-> u.id, username |-> u.username, role |-> u.role]
            /\ ~r.ok => r.err = "User not found or inactive"
            /\ (last.op = "validateToken" /\ last.in = t.token) =>
                 (last.res.ok <=> ActiveAccount(t))
  /\ (last.op = "loginUser" /\ last.res.ok) =>
       LET r == validateToken(last.res.out.token, users, now)
       IN /\ r.ok
          /\ r.out = [id |-> last.res.out.user.id, username |-> last.res.out.user.username,
                      role |-> last.res.out.user.role]

\* an unexpired issued token was presented after its account was deactivated
\* or deleted, and validateToken refused it
C1_Witness ==
  \E t \in tokens :
    /\ Unexpired(t)
    /\ ~ActiveAccount(t)
    /\ last.op = "validateToken"
    /\ last.in = t.token
    /\ last.res.err = "User not found or inactive"

\* C2: an issued token that validateToken has rejected once is rejected in
\* every later state.
C2_RejectedStaysRejected ==
  \A t \in tokens : t.rejected => ~validateToken(t.token, users, now).ok

\* C5: an issued token embeds the expiry (issue time in seconds) + 24 hours;
\* with the account active validateToken accepts it at every time up to and
\* including that expiry and rejects it with 'Invalid or expired token' at
\* every later time.
C5_ExpiryWindow ==
  \A t \in tokens :
    LET claims == DecodePayload(Seg(t.token, 2))
        r == validateToken(t.token, users, now)
    IN /\ claims.exp = ExpirySeconds(t)
       /\ ActiveAccount(t) =>
            /\ now <= ExpirySeconds(t) * 1000 => r.ok
            /\ now > ExpirySeconds(t) * 1000 =>
                 ~r.ok /\ r.err = "Invalid or expired token"
       /\ (last.op = "validateToken" /\ last.in = t.token /\ ActiveAccount(t)) =>
            (last.res.ok <=> now <= ExpirySeconds(t) * 1000)

\* a token of an active account was presented past its expiry and refused
C5_Witness ==
  \E t \in tokens :
    /\ ActiveAccount(t)
    /\ now > ExpirySeconds(t) * 1000
    /\ last.op = "validateToken"
    /\ last.in = t.token
    /\ last.res.err = "Invalid or expired token"

(***************************************************************************)
(* Forged and malformed tokens (SpecForge).                                *)
(***************************************************************************)
\* C3: an issued token with any one of its three segments replaced by a
\* different value is rejected with 'Invalid or expired token', whether or
\* not the account is active and the token unexpired.
C3_AlteredSegmentRejected ==
  /\ LET forged == ForgedSegs(Issued)
     IN \A t \in Issued : \A i \in 1..3 : \A r \in forged :
          r # Seg(t, i) =>
            LET res == validateToken(ReplaceSeg(t, i, r), users, now)
            IN ~res.ok /\ res.err = "Invalid or expired token"
  /\ (last.op = "validateToken" /\ last.in \in Tampered(Issued)) =>
       last.res.err = "Invalid or expired token"

\* a token that validateToken accepts was presented with its claims replaced
\* by well-formed claims of another role, and was refused
C3_Witness ==
  \E t \in Issued :
    /\ validateToken(t, users, now).ok
    /\ last.op = "validateToken"
    /\ last.in = ReplaceSeg(t, 2, EncodePayload([DecodePayload(Seg(t, 2))
                                                   EXCEPT !.role = "admin"]))
    /\ last.in # t
    /\ ~last.res.ok

ThreeNonEmptySegments(s) ==
  /\ Len(split(s)) = 3
  /\ \A i \in 1..3 : split(s)[i] # <<>>

\* C4: every string that does not split on '.' into exactly three non-empty
\* segments is rejected with 'Invalid or expired token'.
C4_MalformedRejected ==
  \A s \in TokenInputs :
    ~ThreeNonEmptySegments(s) =>
      LET res == validateToken(s, users, now)
      IN ~res.ok /\ res.err = "Invalid or expired token"

(***************************************************************************)
(* Logging in (SpecLogin).                                                 *)
(***************************************************************************)
AccountNamed(username) == {u \in users : u.username = username}

\* C6: loginUser returns a token exactly when an account with the username
\* exists, is active and the password verifies against its digest; otherwise
\* it throws ('Invalid username or password' for an unknown username,
\* 'Account is inactive' for an inactive account, 'Invalid username or
\* password' for a wrong password) and issues no token; it never changes the
\* users table.
C6_LoginOnlyActiveVerified ==
  [][ last'.op = "loginUser" =>
        LET input == last'.in
            r == last'.res
            account == AccountNamed(input.username)
            active == \E u \in account : u.is_active
            verifies == \E u \in account : \A rnd \in Salts :
                          verifyPassword(input.password, u.password_hash, rnd)
        IN /\ users' = users
           /\ r.ok <=> (account # {} /\ active /\ verifies)
           /\ r.ok => /\ r.out.token \in {t.token : t \in tokens'}
                      /\ r.out.user \in account
           /\ ~r.ok => /\ tokens' = tokens
                       /\ r.err = IF account = {} THEN "Invalid username or password"
                                  ELSE IF ~active THEN "Account is inactive"
                                  ELSE "Invalid username or password"
    ]_vars

\* loginUser has refused the right password of an inactive account
C6_Witness ==
  /\ last.op = "loginUser"
  /\ last.res.err = "Account is inactive"
  /\ \E u \in AccountNamed(last.in.username) : \A rnd \in Salts :
       verifyPassword(last.in.password, u.password_hash, rnd)

\* C7: for every password, loginUser's error for a username that matches no
\* account equals its error for the username of an account, active or not,
\* whose password it is not.
C7_LoginErrorsIndistinguishable ==
  \A password \in Passwords, rnd \in Salts, known \in users :
    \A unknown \in UsernameSet \ {u.username : u \in users} :
      ~verifyPassword(password, known.password_hash, rnd) =>
        loginUser([username |-> unknown, password |-> password], rnd, users, now).err
        = loginUser([username |-> known.username, password |-> password], rnd, users,
                    now).err

(***************************************************************************)
(* Unique columns (SpecUnique).                                            *)
(***************************************************************************)
UniqueKeys ==
  /\ \A a, b \in users : a.username = b.username => a = b
  /\ \A a, b \in patients : a.medical_record_number = b.medical_record_number => a = b
  /\ \A a, b \in payments : a.receipt_number = b.receipt_number => a = b

\* the call would give a row the unique value another row holds
WouldDuplicate(call) ==
  \/ /\ call.op = "createUser"
     /\ \E u \in users : u.username = call.in.username
  \/ /\ call.op = "updateUser"
     /\ Has(call.in, "username")
     /\ \E u \in users : u.id = call.in.id
     /\ \E u \in users : u.id # call.in.id /\ u.username = call.in.username
  \/ /\ call.op = "createPatient"
     /\ \E q \in patients : q.medical_record_number = call.in.medical_record_number
  \/ /\ call.op = "updatePatient"
     /\ Has(call.in, "medical_record_number")
     /\ \E q \in patients : q.id = call.in.id
     /\ \E q \in patients : /\ q.id # call.in.id
                            /\ q.medical_record_number = call.in.medical_record_number
  \/ /\ call.op = "createPayment"
     /\ \E q \in payments : q.receipt_number = call.in.receipt_number

\* C8: under any interleaving of the statements of concurrent creates and
\* updates no two accounts share a username, no two patients a
\* medical_record_number and no two payments a receipt_number; a create or
\* update that would introduce a duplicate ends with an error and leaves the
\* tables unchanged.
C8_UniqueColumns ==
  [][ /\ UniqueKeys'
      /\ WouldDuplicate(last') =>
           /\ ~last'.res.ok
           /\ tables' = tables
           /\ last'.op # "createPayment" => last'.res.err = UniqueViolation
    ]_vars

\* a createPayment whose checks had all passed lost at the insert to a payment
\* with the same receipt_number, while the other connection was in a
\* createPayment too
C8_Witness ==
  /\ last.op = "createPayment"
  /\ last.res.err = UniqueViolation
  /\ \E q \in payments : q.receipt_number = last.in.receipt_number
  /\ UniqueKeys

(***************************************************************************)
(* Clinician profiles (SpecConc, Spec).                                    *)
(***************************************************************************)
\* C9: under any interleaving of the statements of concurrent createDoctor
\* requests there is at most one profile per account.
C9_OneProfilePerAccount ==
  \A a, b \in doctors : a.user_id = b.user_id => a = b

\* C10: createDoctor inserts a profile exactly when the account exists, has
\* the role 'doctor' and has no profile; otherwise it fails with 'User not
\* found', 'User must have doctor role' or 'Doctor profile already exists for
\* this user', the first of these that applies, and leaves doctors unchanged.
C10_CreateDoctorChecks ==
  [][ last'.op = "createDoctor" =>
        LET input == last'.in
            r == last'.res
            account == {u \in users : u.id = input.user_id}
            isDoctor == \E u \in account : u.role = "doctor"
            hasProfile == \E d \in doctors : d.user_id = input.user_id
        IN /\ r.ok <=> (account # {} /\ isDoctor /\ ~hasProfile)
           /\ r.ok => /\ r.out \notin doctors
                      /\ doctors' = doctors \cup {r.out}
                      /\ r.out.user_id = input.user_id
           /\ ~r.ok => /\ doctors' = doctors
                       /\ r.err = IF account = {} THEN "User not found"
                                  ELSE IF ~isDoctor THEN "User must have doctor role"
                                  ELSE "Doctor profile already exists for this user"
    ]_vars

\* createDoctor was refused for the role of an account that also has a profile
C10_Witness ==
  /\ last.op = "createDoctor"
  /\ last.res.err = "User must have doctor role"
  /\ \E d \in doctors : d.user_id = last.in.user_id

(***************************************************************************)
(* Visit records and their dependents (SpecClinic).                        *)
(***************************************************************************)
NotFoundMessage(entity, id) == entity \o " with ID " \o ToString(id) \o " not found"

\* C11: createMedicalRecord fails with 'Patient with ID <id> not found' when
\* no patient has the id, else with 'Doctor with ID <id> not found' when no
\* doctor profile has the id, and then inserts nothing; when both exist it
\* inserts exactly one record.
C11_CreateRecordChecksReferences ==
  [][ last'.op = "createMedicalRecord" =>
        LET input == last'.in
            r == last'.res
            noPatient == \A p \in patients : p.id # input.patient_id
            noDoctor == \A d \in doctors : d.id # input.doctor_id
        IN IF noPatient
           THEN /\ r.err = NotFoundMessage("Patient", input.patient_id)
                /\ records' = records
           ELSE IF noDoctor
           THEN /\ r.err = NotFoundMessage("Doctor", input.doctor_id)
                /\ records' = records
           ELSE /\ r.ok
                /\ r.out \notin records
                /\ records' = records \cup {r.out}
                /\ r.out.patient_id = input.patient_id
                /\ r.out.doctor_id = input.doctor_id
    ]_vars

\* neither the patient nor the doctor exists, and the error names the patient
C11_Witness ==
  /\ last.op = "createMedicalRecord"
  /\ \A p \in patients : p.id # last.in.patient_id
  /\ \A d \in doctors : d.id # last.in.doctor_id
  /\ doctors # {}
  /\ last.res.err = NotFoundMessage("Patient", last.in.patient_id)

\* C12: deleteMedicalRecord(id) fails with 'Medical record with ID <id> not
\* found' when no record has the id, fails and leaves the record in place
\* while a payment references it, and otherwise removes exactly that record
\* and returns success = true, after which getMedicalRecordById(id) is null:
\* at once, and later too, since no new row takes an id used before.
C12_DeleteRecordBlockedByPayments ==
  [][ /\ \A x \in records' : (\E y \in records : y.id = x.id) \/ x.id >= nextRecordId
      /\ nextRecordId' >= nextRecordId
      /\ last'.op = "deleteMedicalRecord" =>
           LET id == last'.in
               r == last'.res
               hit == {x \in records : x.id = id}
           IN IF hit = {}
              THEN /\ r.err = NotFoundMessage("Medical record", id)
                   /\ records' = records
              ELSE IF \E p \in payments : p.medical_record_id = id
              THEN /\ ~r.ok
                   /\ records' = records
              ELSE /\ r.ok /\ r.out = [success |-> TRUE]
                   /\ records' = records \ hit
                   /\ id < nextRecordId'
                   /\ getMedicalRecordById(id, records') = NULL
    ]_vars

\* a record was deleted while a payment and another record stay
C12_Witness ==
  /\ last.op = "deleteMedicalRecord"
  /\ last.res.ok
  /\ payments # {}
  /\ records # {}
  /\ getMedicalRecordById(last.in, records) = NULL

\* C13: deleteDoctor(id) fails with 'Cannot delete doctor with existing
\* medical records' and changes neither doctors nor records when a record has
\* doctor_id = id; no deleteDoctor removes a record.
C13_DeleteDoctorBlockedByRecords ==
  [][ last'.op = "deleteDoctor" =>
        /\ records' = records
        /\ (\E x \in records : x.doctor_id = last'.in) =>
             /\ last'.res.err = "Cannot delete doctor with existing medical records"
             /\ doctors' = doctors
    ]_vars

\* the refused deletion of a profile that exists and has a record
C13_Witness ==
  /\ last.op = "deleteDoctor"
  /\ ~last.res.ok
  /\ \E d \in doctors : d.id = last.in
  /\ \E x \in records : x.doctor_id = last.in

\* C15: createPayment inserts a payment only when the patient exists, the
\* cashier exists and is active and, whenever the input has a
\* medical_record_id, that record exists; a createPayment that fails inserts
\* nothing.
C15_CreatePaymentChecksReferences ==
  [][ last'.op = "createPayment" =>
        LET input == last'.in
            r == last'.res
        IN /\ r.ok =>
                /\ \E p \in patients : p.id = input.patient_id
                /\ \E u \in users : u.id = input.cashier_id /\ u.is_active
                /\ Has(input, "medical_record_id") =>
                     \E x \in records : x.id = input.medical_record_id
           /\ r.ok => payments' # payments
           /\ ~r.ok => payments' = payments
    ]_vars

(***************************************************************************)
(* Amounts (SpecPay).                                                      *)
(***************************************************************************)
\* C14: every payment row has total_amount equal to doctor_service_fee +
\* medicine_fee, in the table and as getPaymentById returns it.
C14_TotalIsSumOfFees ==
  \A p \in payments :
    /\ p.total_amount = p.doctor_service_fee + p.medicine_fee
    /\ LET read == getPaymentById(p.id, payments)
       IN read.total_amount = read.doctor_service_fee + read.medicine_fee

(***************************************************************************)
(* Deleting accounts and patients (SpecClinic).                            *)
(***************************************************************************)
DeletedRows(call) ==
  IF call.op = "deleteUser" THEN {u \in users : u.id = call.in}
  ELSE {p \in patients : p.id = call.in}

\* C19: deleteUser and deletePatient with an id that no row has return
\* {success: false} and leave the tables unchanged.
C19_DeleteMissingReturnsFalse ==
  [][ (last'.op \in {"deleteUser", "deletePatient"} /\ DeletedRows(last') = {}) =>
        /\ last'.res.ok
        /\ last'.res.out = [success |-> FALSE]
        /\ tables' = tables
    ]_vars

\* C20: deleteUser and deletePatient with the id of an existing row remove
\* the row and return success = true, whatever references the row.
C20_DeleteUnconditional ==
  [][ (last'.op \in {"deleteUser", "deletePatient"} /\ DeletedRows(last') # {}) =>
        /\ last'.res.ok
        /\ last'.res.out = [success |-> TRUE]
        /\ last'.op = "deleteUser" => users' = users \ DeletedRows(last')
        /\ last'.op = "deletePatient" => patients' = patients \ DeletedRows(last')
    ]_vars

(***************************************************************************)
(* Updates (SpecUpdate).                                                   *)
(***************************************************************************)
UpdateOps == {"updateUser", "updatePatient", "updateDoctor", "updateMedicalRecord"}

\* the table an update handler writes, out of the four given
UpdatedTable(op, userRows, patientRows, doctorRows, recordRows) ==
  CASE op = "updateUser" -> userRows
    [] op = "updatePatient" -> patientRows
    [] op = "updateDoctor" -> doctorRows
    [] op = "updateMedicalRecord" -> recordRows

\* the columns an update input names; password is stored as password_hash
NamedColumns(input) ==
  {IF f = "password" THEN "password_hash" ELSE f : f \in DOMAIN input \ {"id"}}

UpdateMessage(op, id) ==
  CASE op = "updateUser" -> "User not found"
    [] op = "updatePatient" -> NotFoundMessage("Patient", id)
    [] op = "updateDoctor" -> "Doctor not found"
    [] op = "updateMedicalRecord" -> NotFoundMessage("Medical record", id)

\* C16: an update changes no table but its own; in its own table every row
\* with another id stays as it was, no row appears or disappears, and the
\* target row keeps every column that the input does not name, updated_at
\* excepted.  updateMedicalRecord with an input that names no column returns
\* the existing record and changes nothing.
C16_UpdateChangesOnlyNamedFields ==
  [][ last'.op \in UpdateOps =>
        LET op == last'.op
            input == last'.in
            old == UpdatedTable(op, users, patients, doctors, records)
            new == UpdatedTable(op, users', patients', doctors', records')
            free == NamedColumns(input) \cup {"updated_at"}
        IN /\ op # "updateUser" => users' = users
           /\ op # "updatePatient" => patients' = patients
           /\ op # "updateDoctor" => doctors' = doctors
           /\ op # "updateMedicalRecord" => records' = records
           /\ payments' = payments
           /\ {r \in new : r.id # input.id} = {r \in old : r.id # input.id}
           /\ {r.id : r \in new} = {r.id : r \in old}
           /\ Cardinality(new) = Cardinality(old)
           /\ \A o \in old, r \in new :
                (o.id = input.id /\ r.id = input.id) =>
                  \A f \in DOMAIN o \ free : r[f] = o[f]
           /\ (op = "updateMedicalRecord" /\ NamedColumns(input) = {}) =>
                /\ records' = records
                /\ \A o \in old : o.id = input.id => last'.res = Return(o)
    ]_vars

\* updatePatient naming full_name alone has succeeded on one of two patients:
\* the name is the new one, the phone number the one the row was created with
C16_Witness ==
  /\ last.op = "updatePatient"
  /\ last.res.ok
  /\ DOMAIN last.in = {"id", "full_name"}
  /\ Cardinality(patients) = 2
  /\ \E p \in patients :
       /\ p.id = last.in.id
       /\ p.full_name = last.in.full_name
       /\ p.phone_number = "555-0101"
       /\ p.created_at < p.updated_at
  /\ \E q \in patients : q.id # last.in.id /\ q.full_name # last.in.full_name

\* C17: a successful update that names at least one column, of a row that
\* was last written before the present millisecond, leaves the row's
\* updated_at greater than it was.
C17_UpdateAdvancesUpdatedAt ==
  [][ (last'.op \in UpdateOps /\ last'.res.ok /\ NamedColumns(last'.in) # {}) =>
        LET old == UpdatedTable(last'.op, users, patients, doctors, records)
            new == UpdatedTable(last'.op, users', patients', doctors', records')
        IN \A o \in old, r \in new :
             (o.id = last'.in.id /\ r.id = last'.in.id /\ o.updated_at < now') =>
               r.updated_at > o.updated_at
    ]_vars

\* C18: an update whose id no row of its table has fails with the handler's
\* not-found message and leaves every table as it was.
C18_UpdateMissingFails ==
  [][ (/\ last'.op \in UpdateOps
       /\ \A o \in UpdatedTable(last'.op, users, patients, doctors, records) :
            o.id # last'.in.id) =>
        /\ ~last'.res.ok
        /\ last'.res.err = UpdateMessage(last'.op, last'.in.id)
        /\ tables' = tables
    ]_vars

\* updateDoctor naming a column has failed on an id that no profile has,
\* while another profile exists
C18_Witness ==
  /\ last.op = "updateDoctor"
  /\ ~last.res.ok
  /\ "specialization" \in DOMAIN last.in
  /\ doctors # {}
  /\ \A d \in doctors : d.id # last.in.id

(***************************************************************************)
(* Create and read back (SpecCreate).                                      *)
(***************************************************************************)
CreateOps == {"createPatient", "createDoctor", "createMedicalRecord", "createPayment"}

\* C21: the entity a successful create returns has every field of the input
\* with the input's value, and getById on its id, right after the create,
\* returns an entity equal to it.
C21_CreateReturnsInput ==
  [][ (last'.op \in CreateOps /\ last'.res.ok) =>
        LET input == last'.in
            out == last'.res.out
            read == CASE last'.op = "createPatient" -> getPatientById(out.id, patients')
                      [] last'.op = "createDoctor" -> getDoctorById(out.id, doctors', users')
                      [] last'.op = "createMedicalRecord" ->
                           getMedicalRecordById(out.id, records')
                      [] last'.op = "createPayment" -> getPaymentById(out.id, payments')
        IN /\ \A f \in DOMAIN input : out[f] = input[f]
           /\ read = out
    ]_vars

(***************************************************************************)
(* Searching patients (SpecSearch).                                        *)
(***************************************************************************)
\* text has the characters of query, in either case, at some position
ContainsIgnoringCase(text, query) ==
  \E i \in 0..(Len(text) - Len(query)) :
    \A j \in 1..Len(query) : Lower(text[i + j]) = Lower(query[j])

Matches(p, query) ==
  \/ ContainsIgnoringCase(p.full_name, query)
  \/ ContainsIgnoringCase(p.phone_number, query)
  \/ ContainsIgnoringCase(p.medical_record_number, query)

\* C22: searchPatients returns only patients one of whose full_name,
\* phone_number and medical_record_number contains the query in either case,
\* at most limit of them, and all of them when offset is 0 and limit is at
\* least their number.
C22_SearchLiteralSubstring ==
  [][ last'.op = "searchPatients" =>
        LET input == last'.in
            found == last'.res.out.rows
            matching == {p \in patients : Matches(p, input.query)}
        IN /\ last'.res.ok
           /\ \A i \in DOMAIN found : found[i] \in matching
           /\ Len(found) <= input.limit
           /\ (input.offset = 0 /\ input.limit >= Cardinality(matching)) =>
                {found[i] : i \in DOMAIN found} = matching
    ]_vars

(***************************************************************************)
(* The dashboard (SpecDashboard).                                          *)
(***************************************************************************)
\* C23: every visit getTodaysSchedule returns is dated at or after today's
\* local midnight and before the next one, and a call that names no account
\* returns every visit so dated.
C23_ScheduleWindowHalfOpen ==
  [][ last'.op = "getTodaysSchedule" =>
        LET found == last'.res.out.rows
            today == StartOfDay(now)
            dueToday == {r \in records : today <= r.visit_date /\ r.visit_date < today + DayMs}
        IN /\ \A i \in DOMAIN found : \E r \in dueToday : r.id = found[i].id
           /\ ~Has(last'.in, "doctorId") =>
                \A r \in dueToday : \E i \in DOMAIN found : found[i].id = r.id
    ]_vars

\* C24: getTodaysSchedule for an account id that no profile has as its
\* user_id returns the empty list.
C24_ScheduleOfNonDoctorEmpty ==
  [][ (/\ last'.op = "getTodaysSchedule"
       /\ Has(last'.in, "doctorId")
       /\ \A d \in doctors : d.user_id # last'.in.doctorId) =>
        /\ last'.res.ok
        /\ last'.res.out.rows = <<>>
    ]_vars

\* C30: in the admin statistics doctors.active_today is at most
\* doctors.total, and patients.new_today <= patients.new_this_week <=
\* patients.total.
C30_StatsInequalities ==
  [][ last'.op = "getDashboardStats" =>
        LET stats == last'.res.out
        IN /\ stats.doctors.active_today <= stats.doctors.total
           /\ stats.patients.new_today <= stats.patients.new_this_week
           /\ stats.patients.new_this_week <= stats.patients.total
    ]_vars

(***************************************************************************)
(* Who may call the users procedures (SpecAccess).                         *)
(***************************************************************************)
UsersProcedures ==
  {"users.create", "users.getAll", "users.getById", "users.update", "users.delete"}

\* the caller's token is valid and belongs to an active account whose role is
\* admin
PresentsAdminToken(authorization) ==
  LET v == validateToken(authorization, users, now)
  IN v.ok /\ v.out.role = "admin"

\* C25: a call of a users procedure by a caller that presents no valid token
\* of an active admin account returns no data and leaves the users table as
\* it was.
C25_UsersProceduresAdminOnly ==
  [][ (last'.op \in UsersProcedures /\ ~PresentsAdminToken(last'.in.authorization)) =>
        /\ ~last'.res.ok
        /\ users' = users
    ]_vars

(***************************************************************************)
(* Logging in with a password set through the handlers (SpecLogin).        *)
(***************************************************************************)
\* the digest of the account is the one createUser or updateUser stores for
\* the password
SetThroughHandler(u, password) ==
  u.password_hash = BunPasswordHash(password, u.password_hash.salt)

\* C26: loginUser with the username of an active account and the password
\* that createUser or updateUser last stored for it succeeds and returns a
\* token.
C26_CreatedAccountLogsIn ==
  [][ (/\ last'.op = "loginUser"
       /\ \E u \in users : /\ u.username = last'.in.username
                           /\ u.is_active
                           /\ SetThroughHandler(u, last'.in.password)) =>
        /\ last'.res.ok
        /\ last'.res.out.token \in {t.token : t \in tokens'}
    ]_vars

(***************************************************************************)
(* References (SpecIntegrity).                                             *)
(***************************************************************************)
\* C27: every profile's user_id is the id of an account; every visit
\* record's patient_id and doctor_id are the ids of a patient and of a
\* profile; every payment's patient_id and cashier_id are the ids of a
\* patient and of an account, and its medical_record_id, unless null, is the
\* id of a visit record.
C27_ReferentialIntegrity ==
  /\ \A d \in doctors : \E u \in users : u.id = d.user_id
  /\ \A r \in records :
       /\ \E p \in patients : p.id = r.patient_id
       /\ \E d \in doctors : d.id = r.doctor_id
  /\ \A p \in payments :
       /\ \E q \in patients : q.id = p.patient_id
       /\ \E u \in users : u.id = p.cashier_id
       /\ p.medical_record_id # 0 => \E r \in records : r.id = p.medical_record_id

\* a createDoctor request whose user was found by its first statement and
\* deleted before its insert: the insert has been refused
C27_Witness ==
  /\ last.op = "createDoctor"
  /\ last.res.err = ForeignKeyViolation
  /\ \A u \in users : u.id # last.in.user_id

(***************************************************************************)
(* What validateToken returns (SpecStored).                                *)
(***************************************************************************)
\* C28: a successful validateToken returns the id of the token's payload with
\* the username and the role that the users table holds for that id.
C28_ValidateReturnsStoredValues ==
  [][ (last'.op = "validateToken" /\ last'.res.ok) =>
        LET payload == verifySimpleJWT(last'.in, now)
        IN /\ payload # NULL
           /\ \E u \in users :
                /\ u.id = payload.id
                /\ last'.res.out = [id |-> payload.id, username |-> u.username,
                                    role |-> u.role]
    ]_vars

\* a token has been validated whose payload holds neither the username nor
\* the role that the account has now
C28_Witness ==
  /\ last.op = "validateToken"
  /\ last.res.ok
  /\ LET payload == verifySimpleJWT(last.in, now)
     IN /\ payload # NULL
        /\ payload.username # last.res.out.username
        /\ payload.role # last.res.out.role

(***************************************************************************)
(* Deleting a profile that does not exist (SpecClinic).                    *)
(***************************************************************************)
\* C29: deleteDoctor(id), when no profile has the id and no visit record has
\* it as doctor_id, returns {success: true} and leaves every table as it was.
C29_DeleteMissingDoctorSucceeds ==
  [][ (/\ last'.op = "deleteDoctor"
       /\ \A d \in doctors : d.id # last'.in
       /\ \A r \in records : r.doctor_id # last'.in) =>
        /\ last'.res = Return([success |-> TRUE])
        /\ tables' = tables
    ]_vars

\* deleteDoctor has succeeded on an id that the sequence has not issued yet,
\* while another profile exists
C29_Witness ==
  /\ last.op = "deleteDoctor"
  /\ last.res = Return([success |-> TRUE])
  /\ last.in >= nextDoctorId
  /\ doctors # {}

====
